---- MODULE Spec2Model ----
(***************************************************************************)
(* Model of the fhirpath-benchmarks runner (src/runner/src): the process   *)
(* invoker (BaseRunner::execute_command), the per-implementation runners   *)
(* (run_tests / run_benchmarks), the orchestrator (Runner, run_command)    *)
(* and the result types (TestResult, BenchmarkResult).                     *)
(*                                                                         *)
(* The module holds several specifications over one set of variables:      *)
(*   SpecInvoker  a sequence of execute_command calls and their children   *)
(*   SpecResult   TestResult values as the harness builds them             *)
(*   SpecRunner   units of run_tests / run_benchmarks over the shared       *)
(*                results directory, sequentially or interleaved           *)
(*   SpecRun      run_command / benchmark_command and the Runner API       *)
(* A specification leaves the variables of the others at their idle value. *)
(***************************************************************************)
EXTENDS Integers, Sequences, FiniteSets, TLC

VARIABLES
    \* ---- process invoker (implementations/mod.rs execute_command) ----
    children,   \* pid -> "running" | "exited": every child process spawned so far
    call,       \* the execute_command call in progress or just returned
    ncalls,     \* number of execute_command calls made so far
    \* ---- a TestResult value under construction (results.rs) ----
    tr,         \* the TestResult
    tr_by,      \* the function that produced or last changed it
    tr_out,     \* the stdout text handed to parse_test_output, if any
    \* ---- units of run_tests / run_benchmarks over the results directory ----
    units,      \* the units launched, in list order
    dir,        \* the files of results_dir
    kind,       \* "test_results" | "benchmark_results": what the units run
    \* ---- the orchestrator (runner.rs, main.rs) ----
    args,       \* the command and its arguments: entry, languages, parallel, flags
    stage,      \* where the command is: "setup", "tests", "benchmarks", "report",
                \* or how it ended: "completed", "failed" (Err), "panicked"
    setup,      \* setup_implementations' loop: index of the language, whether its
                \* venv creation or its setup command is running, the last outcome
    setup_results,  \* the HashMap<String, bool> of setup_implementations
    setup_state,    \* per language: "Pending", "SettingUp", "Ready", "SetupFailed"
    successful_languages,   \* main.rs:236
    tasks,      \* the units of the phase in progress, in list order
    test_results,       \* main.rs:255
    benchmark_results,  \* main.rs:256
    entered,    \* per phase, how many units started running
    executed,   \* per language and phase, how many times its command was started
    report,     \* the report generate_report built, or NoReport
    orphans,    \* <<language, phase>> of the commands that timed out and whose
                \* child process is still running
    load,  \* the load_result_from_file call under test: directory, pattern, return
    cmp,  \* the ComparisonReport under construction: the two lists and the summary
    bench,  \* a run_benchmarks call over one result file, and the report made of its result
    stat,  \* one StatisticalSummary::calculate or percentile call (results.rs:596-658)
    py   \* one PythonRunner call: the implementation directory, the configured command, the command run

invVars == <<children, call, ncalls>>
resVars == <<tr, tr_by, tr_out>>
runnerVars == <<units, dir, kind>>
runVars == <<args, stage, setup, setup_results, setup_state, successful_languages, tasks,
             test_results, benchmark_results, entered, executed, report, orphans>>

loadVars == <<load>>

cmpVars == <<cmp>>

benchVars == <<bench>>

statVars == <<stat>>

pyVars == <<py>>

vars == <<children, call, ncalls, tr, tr_by, tr_out, units, dir, kind,
          args, stage, setup, setup_results, setup_state, successful_languages, tasks,
          test_results, benchmark_results, entered, executed, report, orphans,
          load,
          cmp,
          bench,
          stat,
          py>>

\* What an action of one specification leaves alone: the other specifications' variables.
notInv == <<resVars, runnerVars, runVars, loadVars, cmpVars, benchVars, statVars, pyVars>>
notRes == <<invVars, runnerVars, runVars, loadVars, cmpVars, benchVars, statVars, pyVars>>
notRunner == <<invVars, resVars, runVars, loadVars, cmpVars, benchVars, statVars, pyVars>>
notRun == <<invVars, resVars, runnerVars, loadVars, cmpVars, benchVars, statVars, pyVars>>
notLoad == <<invVars, resVars, runnerVars, runVars, cmpVars, benchVars, statVars, pyVars>>
notCmp == <<invVars, resVars, runnerVars, runVars, loadVars, benchVars, statVars, pyVars>>
notBench == <<invVars, resVars, runnerVars, runVars, loadVars, cmpVars, statVars, pyVars>>
notStat == <<invVars, resVars, runnerVars, runVars, loadVars, cmpVars, benchVars, pyVars>>
notPy == <<invVars, resVars, runnerVars, runVars, loadVars, cmpVars, benchVars, statVars>>

(***************************************************************************)
(* Bounds of the model.                                                    *)
(***************************************************************************)
MaxCalls == 3       \* execute_command calls in one behaviour of SpecInvoker
MaxTimeout == 2     \* largest timeout_secs tried
MaxCases == 2       \* test cases added to one TestResult
MaxCaseTime == 1    \* largest execution_time_ms of one test case
MaxLines == 2       \* lines of captured stdout
MaxUnits == 2       \* units launched over the results directory
MaxLangs == 2       \* languages the caller lists

(***************************************************************************)
(* Implementation identities. create_runner (implementations/mod.rs:101)   *)
(* knows seven names; the six whose runner source is part of src/ are      *)
(* modelled.                                                               *)
(***************************************************************************)
Runners == {"javascript", "python", "java", "csharp", "go", "clojure"}

(***************************************************************************)
(* Captured stdout. A line is the set of words printed on it; contains()   *)
(* is substring search, so a pattern is found in a line when some word of  *)
(* the line has it as a substring. Substrings gives, for each word, the    *)
(* patterns of the runners' token sets that occur in it; ToLowercase is    *)
(* str::to_lowercase on the words. "CHECK_MARK" and "CROSS_MARK" stand for *)
(* the two emoji U+2705 and U+274C of the token sets.                      *)
(***************************************************************************)
Words == {"CHECK_MARK", "CROSS_MARK", "passed", "PASSED", "Passed!", "PASS", "ok", "token",
          "SUCCESS", "failed", "FAILED", "Failed!", "FAIL", "FAILURE",
          "error", "Error", "tests"}

ToLowercase(w) ==
    CASE w = "PASSED"  -> "passed"
      [] w = "Passed!" -> "passed!"
      [] w = "PASS"    -> "pass"
      [] w = "SUCCESS" -> "success"
      [] w = "FAILED"  -> "failed"
      [] w = "Failed!" -> "failed!"
      [] w = "FAIL"    -> "fail"
      [] w = "FAILURE" -> "failure"
      [] w = "Error"   -> "error"
      [] OTHER         -> w

Substrings(w) ==
    CASE w = "CHECK_MARK"       -> {"CHECK_MARK"}
      [] w = "CROSS_MARK"       -> {"CROSS_MARK"}
      [] w = "passed"   -> {"passed"}
      [] w = "passed!"  -> {"passed"}
      [] w = "PASSED"   -> {"PASSED", "PASS"}
      [] w = "Passed!"  -> {"Passed!"}
      [] w = "PASS"     -> {"PASS"}
      [] w = "ok"       -> {"ok"}
      [] w = "token"    -> {"ok"}
      [] w = "SUCCESS"  -> {"SUCCESS"}
      [] w = "failed"   -> {"failed"}
      [] w = "failed!"  -> {"failed"}
      [] w = "FAILED"   -> {"FAILED", "FAIL"}
      [] w = "Failed!"  -> {"Failed!"}
      [] w = "FAIL"     -> {"FAIL"}
      [] w = "FAILURE"  -> {"FAILURE", "FAIL"}
      [] w = "error"    -> {"error"}
      [] OTHER          -> {}

\* line.contains(pat)
Contains(line, pat) == \E w \in line : pat \in Substrings(w)
\* line.to_lowercase().contains(pat)
LowerContains(line, pat) == \E w \in line : pat \in Substrings(ToLowercase(w))

\* The lines a test command is taken to print: none, one or two words.
Lines == {{}} \cup {{w} : w \in Words}
         \cup {{"passed", "failed"}, {"PASS", "error"}, {"ok", "FAIL"}}

RECURSIVE SeqsUpTo(_, _)
SeqsUpTo(S, n) ==
    IF n = 0 THEN {<< >>}
    ELSE LET shorter == SeqsUpTo(S, n - 1)
         IN  shorter \cup {Append(q, x) : q \in {r \in shorter : Len(r) = n - 1}, x \in S}

(***************************************************************************)
(* TestResult (results.rs). Of a TestCaseResult the model keeps passed,    *)
(* whether error is Some, and execution_time_ms; of a TestResult the       *)
(* language, the cases, the summary and the top-level error ("None" or the *)
(* message).                                                               *)
(***************************************************************************)
TestCaseResults == [passed : BOOLEAN, error : BOOLEAN, execution_time_ms : 0..MaxCaseTime]

\* results.rs:157-182 TestResult::new
TestResultNew(language) ==
    [language |-> language,
     tests    |-> << >>,
     summary  |-> [total |-> 0, passed |-> 0, failed |-> 0, errors |-> 0,
                   execution_time_ms |-> 0],
     error    |-> "None"]

\* results.rs:184-195 TestResult::add_test_case
AddTestCase(r, c) ==
    LET s == r.summary
        counted ==
            IF c.passed THEN [s EXCEPT !.total = @ + 1, !.passed = @ + 1]
            ELSE IF c.error THEN [s EXCEPT !.total = @ + 1, !.errors = @ + 1]
            ELSE [s EXCEPT !.total = @ + 1, !.failed = @ + 1]
    IN  [r EXCEPT !.summary = [counted EXCEPT !.execution_time_ms = @ + c.execution_time_ms],
                  !.tests = Append(@, c)]

\* implementations/mod.rs:66-71 BaseRunner::create_error_test_result
CreateErrorTestResult(language, error) ==
    [TestResultNew(language) EXCEPT !.error = error, !.summary.errors = 1]

\* The first branch of the runners' line scan (javascript.rs:111, python.rs:175,
\* java.rs:104, csharp.rs:104, go.rs:104, clojure.rs:104).
IsPassLine(lang, line) ==
    CASE lang = "javascript" -> Contains(line, "CHECK_MARK") \/ LowerContains(line, "passed")
      [] lang = "python"  -> Contains(line, "CHECK_MARK") \/ LowerContains(line, "passed")
                             \/ Contains(line, "PASSED")
      [] lang = "java"    -> Contains(line, "CHECK_MARK") \/ LowerContains(line, "passed")
                             \/ Contains(line, "SUCCESS")
      [] lang = "csharp"  -> Contains(line, "CHECK_MARK") \/ LowerContains(line, "passed")
                             \/ Contains(line, "Passed!")
      [] lang = "go"      -> Contains(line, "CHECK_MARK") \/ Contains(line, "PASS")
                             \/ Contains(line, "ok")
      [] lang = "clojure" -> Contains(line, "CHECK_MARK") \/ Contains(line, "PASS")
                             \/ Contains(line, "passed")

\* The else-if branch of the scan (javascript.rs:114, python.rs:178, java.rs:107,
\* csharp.rs:107, go.rs:107, clojure.rs:107).
IsFailLine(lang, line) ==
    CASE lang = "javascript" -> Contains(line, "CROSS_MARK") \/ LowerContains(line, "failed")
                                \/ LowerContains(line, "error")
      [] lang = "python"  -> Contains(line, "CROSS_MARK") \/ LowerContains(line, "failed")
                             \/ Contains(line, "FAILED") \/ LowerContains(line, "error")
      [] lang = "java"    -> Contains(line, "CROSS_MARK") \/ LowerContains(line, "failed")
                             \/ Contains(line, "FAILURE") \/ LowerContains(line, "error")
      [] lang = "csharp"  -> Contains(line, "CROSS_MARK") \/ LowerContains(line, "failed")
                             \/ Contains(line, "Failed!") \/ LowerContains(line, "error")
      [] lang = "go"      -> Contains(line, "CROSS_MARK") \/ Contains(line, "FAIL")
                             \/ LowerContains(line, "error")
      [] lang = "clojure" -> Contains(line, "CROSS_MARK") \/ Contains(line, "FAIL")
                             \/ Contains(line, "failed") \/ LowerContains(line, "error")

\* Mutant of ScanLines: the second test is an if of its own, not an else-if, so
\* a line with both kinds of token is counted twice.
RECURSIVE ScanLines_NoElse(_, _)
ScanLines_NoElse(lang, out) ==
    IF out = << >> THEN <<0, 0>>
    ELSE LET rest == ScanLines_NoElse(lang, Tail(out))
             line == Head(out)
             p == IF IsPassLine(lang, line) THEN 1 ELSE 0
             f == IF IsFailLine(lang, line) THEN 1 ELSE 0
         IN  <<rest[1] + p, rest[2] + p + f>>

\* The scan's two counters after the lines of out: <<passed_count, total_count>>.
RECURSIVE ScanLines(_, _)
ScanLines(lang, out) ==
    IF out = << >> THEN <<0, 0>>
    ELSE LET rest == ScanLines(lang, Tail(out))
             line == Head(out)
         IN  IF IsPassLine(lang, line) THEN <<rest[1] + 1, rest[2] + 1>>
             ELSE IF IsFailLine(lang, line) THEN <<rest[1], rest[2] + 1>>
             ELSE rest

\* javascript.rs:102-124 parse_test_output (and its copies in the other runners)
ParseTestOutput(lang, out) ==
    LET counts == ScanLines(lang, out)
    IN  [TestResultNew(lang) EXCEPT !.summary.total = counts[2],
                                    !.summary.passed = counts[1],
                                    !.summary.failed = counts[2] - counts[1]]

(***************************************************************************)
(* SpecResult: the ways the harness makes or changes a TestResult.         *)
(***************************************************************************)
ResultIdle ==
    /\ tr = TestResultNew("javascript")
    /\ tr_by = "idle"
    /\ tr_out = << >>

\* The captured stdout handed to parse_test_output: at most MaxLines lines.
Outputs == SeqsUpTo(Lines, MaxLines)

ResultInit ==
    /\ tr \in {TestResultNew(l) : l \in Runners}
    /\ tr_by = "new"
    /\ tr_out = << >>

\* The harness starts on a fresh result for language l.
DoNew(l) ==
    /\ tr_by # "new"
    /\ tr' = TestResultNew(l)
    /\ tr_by' = "new"
    /\ tr_out' = << >>
    /\ UNCHANGED notRes

DoAddTestCase(c) ==
    /\ tr_by \in {"new", "add_test_case"}
    /\ Len(tr.tests) < MaxCases
    /\ tr' = AddTestCase(tr, c)
    /\ tr_by' = "add_test_case"
    /\ tr_out' = << >>
    /\ UNCHANGED notRes

DoCreateErrorTestResult(e) ==
    /\ tr_by = "new"
    /\ tr' = CreateErrorTestResult(tr.language, e)
    /\ tr_by' = "create_error_test_result"
    /\ tr_out' = << >>
    /\ UNCHANGED notRes

DoParseTestOutput(out) ==
    /\ tr_by = "new"
    /\ tr' = ParseTestOutput(tr.language, out)
    /\ tr_by' = "parse_test_output"
    /\ tr_out' = out
    /\ UNCHANGED notRes

ResultNext ==
    \/ \E l \in Runners : DoNew(l)
    \/ \E c \in TestCaseResults : DoAddTestCase(c)
    \/ \E e \in {"stderr"} : DoCreateErrorTestResult(e)
    \/ \E out \in Outputs : DoParseTestOutput(out)

(***************************************************************************)
(* Process invoker.                                                        *)
(***************************************************************************)
NoCall == [pc |-> "idle", empty |-> FALSE, timeout_secs |-> 0, elapsed |-> 0,
           pid |-> 0, result |-> "none"]

InvokerInit ==
    /\ children = << >>
    /\ call = NoCall
    /\ ncalls = 0


\* mod.rs:44-46: an empty command bails before any Command is built.
ExecEmptyCommand(t) ==
    /\ call.pc = "idle"
    /\ ncalls < MaxCalls
    /\ call' = [NoCall EXCEPT !.pc = "returned", !.empty = TRUE,
                              !.timeout_secs = t, !.result = "InvalidCommand"]
    /\ ncalls' = ncalls + 1
    /\ UNCHANGED <<children, notInv>>

\* mod.rs:48-59: cmd.output() spawns the child; the spawn itself may fail, and
\* the io error then comes back as Ok(Err(e)) (mod.rs:61).
ExecSpawn(t, spawned) ==
    /\ call.pc = "idle"
    /\ ncalls < MaxCalls
    /\ ncalls' = ncalls + 1
    /\ UNCHANGED notInv
    /\ IF spawned
         THEN /\ children' = Append(children, "running")
              /\ call' = [NoCall EXCEPT !.pc = "awaiting", !.timeout_secs = t,
                                        !.pid = Len(children) + 1]
         ELSE /\ children' = children
              /\ call' = [NoCall EXCEPT !.pc = "returned", !.timeout_secs = t,
                                        !.result = "ExecFailed"]

\* Wall-clock time passes while the call awaits the child's output.
Tick ==
    /\ call.pc = "awaiting"
    /\ call.elapsed < call.timeout_secs
    /\ call' = [call EXCEPT !.elapsed = @ + 1]
    /\ UNCHANGED <<children, ncalls, notInv>>

\* The child process ends on its own (any child, also one whose call is over).
ChildExit(p) ==
    /\ p \in DOMAIN children
    /\ children[p] = "running"
    /\ children' = [children EXCEPT ![p] = "exited"]
    /\ UNCHANGED <<call, ncalls, notInv>>

\* mod.rs:60: the child has exited and its output is collected: Ok(Ok(output)),
\* whatever the exit status.
ExecOutput(success) ==
    /\ call.pc = "awaiting"
    /\ children[call.pid] = "exited"
    /\ call' = [call EXCEPT !.pc = "returned",
                            !.result = IF success THEN "ExitSuccess" ELSE "ExitFailure"]
    /\ UNCHANGED <<children, ncalls, notInv>>

\* What the timeout arm does to the child it was waiting for. The arm only
\* bails: the Command was built without kill_on_drop (mod.rs:48-55) and nothing
\* kills or waits for the child, so dropping the output future leaves the
\* process in the state it was in.
ChildAfterTimeout(state) == state

\* mod.rs:59,62: the timeout elapses before the output future completes.
ExecTimeout ==
    /\ call.pc = "awaiting"
    /\ call.elapsed = call.timeout_secs
    /\ call' = [call EXCEPT !.pc = "returned", !.result = "Timeout"]
    /\ children' = [children EXCEPT ![call.pid] = ChildAfterTimeout(@)]
    /\ UNCHANGED <<ncalls, notInv>>

\* The caller takes the result; the invoker is ready for the next call.
ExecReturn ==
    /\ call.pc = "returned"
    /\ call' = NoCall
    /\ UNCHANGED <<children, ncalls, notInv>>

InvokerNext ==
    \/ \E t \in 0..MaxTimeout : ExecEmptyCommand(t)
    \/ \E t \in 0..MaxTimeout, spawned \in BOOLEAN : ExecSpawn(t, spawned)
    \/ Tick
    \/ \E p \in 1..MaxCalls : ChildExit(p)
    \/ \E success \in BOOLEAN : ExecOutput(success)
    \/ ExecTimeout
    \/ ExecReturn

(***************************************************************************)
(* BenchmarkResult (results.rs), kept like TestResult.                     *)
(***************************************************************************)
\* results.rs:313-336 BenchmarkResult::new
BenchmarkResultNew(language) ==
    [language   |-> language,
     benchmarks |-> << >>,
     summary    |-> [total_cases |-> 0, total_iterations |-> 0, total_time_ms |-> 0,
                     avg_time_per_case_ms |-> 0],
     error      |-> "None"]

\* implementations/mod.rs:73-77 BaseRunner::create_error_benchmark_result
CreateErrorBenchmarkResult(language, error) ==
    [BenchmarkResultNew(language) EXCEPT !.error = error]

(***************************************************************************)
(* The results directory. A file name is the sequence of its tokens, cut   *)
(* so that no token is a proper prefix of another ("javascript" is "java"  *)
(* followed by "script"); a glob pattern is such a sequence in which "*"   *)
(* matches any run of tokens.                                              *)
(***************************************************************************)
Kinds == {"test_results", "benchmark_results"}

NameOf(lang) == IF lang = "javascript" THEN <<"java", "script">> ELSE <<lang>>

RECURSIVE GlobMatch(_, _)
GlobMatch(pat, name) ==
    IF pat = << >> THEN name = << >>
    ELSE IF Head(pat) = "*"
         THEN GlobMatch(Tail(pat), name)
              \/ (name # << >> /\ GlobMatch(pat, Tail(name)))
         ELSE name # << >> /\ Head(name) = Head(pat) /\ GlobMatch(Tail(pat), Tail(name))

\* utils.rs:22 format!("{}_{}_*.json", language, result_type)
TimestampedPattern(lang, result_type) == NameOf(lang) \o <<"_", result_type, "_", "*", ".json">>

\* utils.rs:25 format!("{}_{}.json", language, result_type)
SimpleFilename(lang, result_type) == NameOf(lang) \o <<"_", result_type, ".json">>

\* Mutant of LoadPattern: the result kind is left out of the pattern.
LoadPattern_NoKind(lang, result_type) == NameOf(lang) \o <<"*", ".json">>

\* The pattern run_tests / run_benchmarks load from (javascript.rs:63,91 and the
\* other runners); csharp.rs:61,86 names the file without a wildcard.
LoadPattern(lang, result_type) ==
    IF lang = "csharp" THEN NameOf(lang) \o <<"_", result_type, ".json">>
    ELSE NameOf(lang) \o <<"_", result_type, "*", ".json">>

\* utils.rs:20-49 cleanup_result_files: the files it removes from directory d.
CleanupMatches(d, lang, result_type) ==
    {f \in d : \/ GlobMatch(TimestampedPattern(lang, result_type), f.name)
               \/ f.name = SimpleFilename(lang, result_type)}

\* glob yields the matching paths in alphabetical order: the rank of a token is
\* the alphabetical place of its text among the tokens.
TokenRank(t) ==
    CASE t = "-old" -> 1
      [] t = ".json" -> 2
      [] t = "1700" -> 3
      [] t = "_" -> 4
      [] t = "benchmark_results" -> 5
      [] t = "clojure" -> 6
      [] t = "csharp" -> 7
      [] t = "go" -> 8
      [] t = "java" -> 9
      [] t = "python" -> 10
      [] t = "script" -> 11
      [] t = "test_results" -> 12

RECURSIVE NameBefore(_, _)
NameBefore(a, b) ==
    IF a = << >> THEN b # << >>
    ELSE IF b = << >> THEN FALSE
    ELSE IF Head(a) = Head(b) THEN NameBefore(Tail(a), Tail(b))
    ELSE TokenRank(Head(a)) < TokenRank(Head(b))

NoFile == [name |-> << >>, readable |-> FALSE, ok |-> FALSE, by |-> 0, language |-> "none"]

\* mod.rs:85-86 glob::glob: the paths of d that match the pattern, in
\* alphabetical order.
RECURSIVE SortByName(_)
SortByName(fs) ==
    IF fs = {} THEN << >>
    ELSE LET f == CHOOSE x \in fs : \A g \in fs : g.name = x.name \/ NameBefore(x.name, g.name)
         IN  <<f>> \o SortByName(fs \ {f})

GlobEntries(d, pattern) == SortByName({f \in d : GlobMatch(pattern, f.name)})

\* Mutant of FirstParsed: the loop gives up at the first entry that does not
\* read or parse instead of going on to the next.
FirstParsed_GivesUp(entries) ==
    IF entries = << >> THEN NoFile
    ELSE IF Head(entries).readable /\ Head(entries).ok THEN Head(entries)
    ELSE NoFile

\* mod.rs:86-95: the loop over the entries; an entry that read_to_string cannot
\* read (readable) or serde_json cannot parse as the requested type (ok) is
\* passed over, the first that does both is returned.
RECURSIVE FirstParsed(_)
FirstParsed(entries) ==
    IF entries = << >> THEN NoFile
    ELSE IF Head(entries).readable /\ Head(entries).ok THEN Head(entries)
    ELSE FirstParsed(Tail(entries))

\* implementations/mod.rs:79-98 load_result_from_file; NoFile stands for Ok(None).
LoadResultFromFile(d, pattern) == FirstParsed(GlobEntries(d, pattern))

\* The TestResult / BenchmarkResult a well-formed result file holds: the document
\* its writer serialised, for the writer's language.
StructuredTestResult(language) ==
    AddTestCase(AddTestCase(TestResultNew(language),
                            [passed |-> TRUE, error |-> FALSE, execution_time_ms |-> 1]),
                [passed |-> FALSE, error |-> FALSE, execution_time_ms |-> 1])

StructuredBenchmarkResult(language) ==
    [BenchmarkResultNew(language) EXCEPT
        !.benchmarks = <<[iterations |-> 1, total_time_ms |-> 2]>>,
        !.summary = [total_cases |-> 1, total_iterations |-> 1, total_time_ms |-> 2,
                     avg_time_per_case_ms |-> 2]]

(***************************************************************************)
(* run_tests / run_benchmarks of one runner, after the command has run to  *)
(* completion (javascript.rs:57-70 and 85-97, and the other runners').     *)
(***************************************************************************)
Ok(v) == [tag |-> "Ok", value |-> v]
Err(e) == [tag |-> "Err", value |-> e]
NoRet == [tag |-> "none", value |-> "none"]

\* Mutant of TestExitFailure: the exit failure is bailed like setup's (javascript.rs:36-39).
TestExitFailure_Bails(lang) == Err("stderr")

\* javascript.rs:57-60: the non-zero exit branch of run_tests
TestExitFailure(lang) == Ok(CreateErrorTestResult(lang, "stderr"))

\* javascript.rs:85-88: the non-zero exit branch of run_benchmarks
BenchmarkExitFailure(lang) == Ok(CreateErrorBenchmarkResult(lang, "stderr"))

\* javascript.rs:57-70
RunTestsCollect(lang, success, d, out) ==
    IF ~success THEN TestExitFailure(lang)
    ELSE LET f == LoadResultFromFile(d, LoadPattern(lang, "test_results"))
         IN  IF f # NoFile THEN Ok(StructuredTestResult(f.language))
             ELSE Ok(ParseTestOutput(lang, out))

\* javascript.rs:85-97
RunBenchmarksCollect(lang, success, d) ==
    IF ~success THEN BenchmarkExitFailure(lang)
    ELSE LET f == LoadResultFromFile(d, LoadPattern(lang, "benchmark_results"))
         IN  IF f # NoFile THEN Ok(StructuredBenchmarkResult(f.language))
             ELSE Ok(CreateErrorBenchmarkResult(lang, "No results file generated"))

\* Mutant of ExecErrorReturn: the invoker error is returned as a result.
ExecErrorReturn_AsResult(e) == Ok(e)

\* What the ? after execute_command makes of an invoker error (javascript.rs:55,83).
ExecErrorReturn(e) == Err(e)

(***************************************************************************)
(* SpecRunner: the units one phase launches, one per language, each the    *)
(* run_tests or run_benchmarks call of that language's runner, over the    *)
(* shared results directory. The steps of different units interleave.      *)
(***************************************************************************)
UnitLangs == {"java", "javascript", "csharp"}

\* Names under which a result file may lie in the directory for a language.
Suffixes == {<< >>, <<"_", "1700">>, <<"-old">>}
FileName(lang, result_type, suffix) == NameOf(lang) \o <<"_", result_type>> \o suffix \o <<".json">>

NewUnit(lang) ==
    [lang |-> lang, pc |-> "start", child |-> "none", wrote |-> FALSE, exec |-> "none",
     deleted |-> {}, loaded |-> NoFile, ret |-> NoRet]

\* The languages of a phase in a fixed order (run_command hands over each
\* successfully set up language once, main.rs:236-239).
RECURSIVE SetToSeq(_)
SetToSeq(S) ==
    IF S = {} THEN << >>
    ELSE LET x == CHOOSE y \in S : \A z \in S : z = y \/ NameBefore(NameOf(y), NameOf(z))
         IN  <<x>> \o SetToSeq(S \ {x})

RunnerInit ==
    /\ kind \in Kinds
    /\ \E ls \in {S \in SUBSET UnitLangs : S # {} /\ Cardinality(S) <= MaxUnits} :
          units = [i \in 1..Cardinality(ls) |-> NewUnit(SetToSeq(ls)[i])]
    /\ dir \in {{}} \cup
               {{[name |-> FileName(l, kind, sfx), readable |-> TRUE, ok |-> TRUE, by |-> 0,
                  language |-> l]} :
                    l \in UnitLangs, sfx \in Suffixes}

RunnerIdle ==
    /\ kind = "test_results"
    /\ units = << >>
    /\ dir = {}

\* javascript.rs:49,77: cleanup_result_files(results_dir, lang, kind)
Cleanup(u) ==
    /\ u \in DOMAIN units
    /\ units[u].pc = "start"
    /\ LET gone == CleanupMatches(dir, units[u].lang, kind)
       IN  /\ dir' = dir \ gone
           /\ units' = [units EXCEPT ![u].pc = "exec", ![u].deleted = gone]
    /\ UNCHANGED <<kind, notRunner>>

\* javascript.rs:51-55 with mod.rs:44-61: the command is empty, or the spawn
\* fails, or the child starts.
ExecStart(u, how) ==
    /\ u \in DOMAIN units
    /\ units[u].pc = "exec"
    /\ units' = [units EXCEPT ![u] =
          CASE how = "empty"        -> [@ EXCEPT !.pc = "done", !.exec = "InvalidCommand",
                                                 !.ret = ExecErrorReturn("InvalidCommand")]
            [] how = "spawn_failed" -> [@ EXCEPT !.pc = "done", !.exec = "ExecFailed",
                                                 !.ret = ExecErrorReturn("ExecFailed")]
            [] how = "spawned"      -> [@ EXCEPT !.pc = "running", !.child = "running"]]
    /\ UNCHANGED <<dir, kind, notRunner>>

\* The implementation's own test driver writes its result file, once: by the
\* naming convention {language}_{kind}.json, well-formed or not.
ChildWrites(u, ok) ==
    /\ u \in DOMAIN units
    /\ units[u].child = "running"
    /\ ~units[u].wrote
    /\ LET f == [name |-> FileName(units[u].lang, kind, << >>), readable |-> TRUE, ok |-> ok,
                 by |-> u,
                 language |-> units[u].lang]
       IN  dir' = {g \in dir : g.name # f.name} \cup {f}
    /\ units' = [units EXCEPT ![u].wrote = TRUE]
    /\ UNCHANGED <<kind, notRunner>>

\* The child ends. If the call still awaits it the output comes back with its
\* exit status (mod.rs:60); a child left behind by a timeout just ends.
ChildExits(u, success) ==
    /\ u \in DOMAIN units
    /\ units[u].child = "running"
    /\ units' = [units EXCEPT ![u] =
          IF @.pc = "running"
            THEN [@ EXCEPT !.child = "exited", !.pc = "collect",
                           !.exec = IF success THEN "ExitSuccess" ELSE "ExitFailure"]
            ELSE [@ EXCEPT !.child = "exited"]]
    /\ UNCHANGED <<dir, kind, notRunner>>

\* mod.rs:62 through the ? of javascript.rs:55,83
UnitTimeout(u) ==
    /\ u \in DOMAIN units
    /\ units[u].pc = "running"
    /\ units' = [units EXCEPT ![u].pc = "done", ![u].exec = "Timeout",
                              ![u].ret = ExecErrorReturn("Timeout"),
                              ![u].child = ChildAfterTimeout(@)]
    /\ UNCHANGED <<dir, kind, notRunner>>

\* javascript.rs:57-70 / 85-97: status check, load, fallback.
Collect(u, out) ==
    /\ u \in DOMAIN units
    /\ units[u].pc = "collect"
    /\ units' = [units EXCEPT
          ![u].pc = "done",
          ![u].loaded = IF units[u].exec = "ExitSuccess"
                          THEN LoadResultFromFile(dir, LoadPattern(units[u].lang, kind))
                          ELSE NoFile,
          ![u].ret = IF kind = "test_results"
                       THEN RunTestsCollect(units[u].lang, units[u].exec = "ExitSuccess", dir, out)
                       ELSE RunBenchmarksCollect(units[u].lang, units[u].exec = "ExitSuccess", dir)]
    /\ UNCHANGED <<dir, kind, notRunner>>

\* The texts a unit's command is taken to print.
Stdouts == {<< >>, <<{"passed"}>>, <<{"passed"}, {"FAIL"}>>}

RunnerNext ==
    \/ \E u \in 1..MaxUnits : Cleanup(u)
    \/ \E u \in 1..MaxUnits, how \in {"empty", "spawn_failed", "spawned"} : ExecStart(u, how)
    \/ \E u \in 1..MaxUnits, ok \in BOOLEAN : ChildWrites(u, ok)
    \/ \E u \in 1..MaxUnits, success \in BOOLEAN : ChildExits(u, success)
    \/ \E u \in 1..MaxUnits : UnitTimeout(u)
    \/ \E u \in 1..MaxUnits, out \in Stdouts : Collect(u, out)

(***************************************************************************)
(* SpecRun: the orchestrator. run_command and benchmark_command set up the *)
(* listed languages, run the phases over the languages whose setup          *)
(* succeeded and build the report; the Runner's phase functions are also    *)
(* callable on a list of the caller's ("api_tests", "api_benchmarks").      *)
(* A unit of a phase is one run_tests_for_language /                        *)
(* run_benchmarks_for_language call; what its command did comes in as the   *)
(* invoker's outcome and is turned into the unit's return value by the      *)
(* runner's code.                                                           *)
(***************************************************************************)
\* Languages a caller may list: two with a runner, one that the configuration
\* file declares but create_runner does not know ("php"), one that the
\* configuration does not declare ("cobol"). Config::load_from_file takes any key.
LangPool == {"java", "python", "php", "cobol"}
Configured == {"java", "python", "php"}

\* mod.rs:101-112 create_runner: the names it builds a runner for; any other
\* name reaches panic!.
CreateRunnerKnows(language) == language \in Runners \cup {"rust"}

Entries == {"run_command", "benchmark_command", "api_tests", "api_benchmarks"}

\* The phases an implementation's commands belong to (setup_command,
\* test_command, benchmark_command of its configuration).
Phases == {"setup", "test_results", "benchmark_results"}

NoReport == [made |-> FALSE, test_results |-> << >>, benchmark_results |-> << >>]

\* A unit of a phase; nth is its place in the order in which the units of the
\* phase finished, 0 while it has not.
NewTask(lang) ==
    [lang |-> lang, pc |-> "pending", exec |-> "none", ret |-> NoRet, nth |-> 0]

NumFinished(ts) == Cardinality({j \in DOMAIN ts : ts[j].nth > 0})

NewTasks(langs) == [i \in 1..Len(langs) |-> NewTask(langs[i])]

\* The outcomes execute_command has for a started command (mod.rs:59-63).
ExecOutcomes == {"ExecFailed", "Timeout", "ExitFailure", "ExitSuccess"}

\* mod.rs:47-63: the command is built without kill_on_drop, and the timeout arm
\* neither kills the child nor waits for it; in the other arms the child was
\* never started or its exit has been collected.
CommandOutlivesCall(exec) == exec = "Timeout"

\* javascript.rs:27-43 setup (and the other runners'): execute_command(...)?,
\* then bail on a non-zero exit.
SetupReturn(exec) == IF exec = "ExitSuccess" THEN Ok("unit") ELSE Err(exec)

\* python.rs:33-52 setup_virtual_env: with the venv directory in place nothing
\* is run; otherwise `python -m venv venv` goes through execute_command(...)?
\* and a non-zero exit bails.
SetupVirtualEnvReturn(venv_exists, exec) ==
    IF venv_exists \/ exec = "ExitSuccess" THEN Ok("unit") ELSE Err(exec)

\* python.rs:65: only PythonRunner::setup calls setup_virtual_env.
NeedsVirtualEnv(language) == language = "python"

\* Mutant of SetupSuccess: every return of setup counts as ready.
SetupSuccess_Always(ret) == TRUE

\* runner.rs:56-65: setup_implementation turns the runner's Err into Ok(false).
SetupSuccess(ret) == ret.tag = "Ok"

\* The step and outcome of the setup that returned last, kept until the next
\* setup starts or the setup loop is left.
NoLast == [lang |-> "none", step |-> "none", exec |-> "none"]
NewSetup == [i |-> 1, busy |-> FALSE, venv |-> FALSE, last |-> NoLast]

\* javascript.rs:45-71 run_tests and 73-98 run_benchmarks as a whole, given what
\* execute_command came back with, the results directory at load time and the
\* captured stdout.
UnitReturn(lang, result_type, exec, d, out) ==
    IF exec \in {"InvalidCommand", "ExecFailed", "Timeout"} THEN ExecErrorReturn(exec)
    ELSE IF result_type = "test_results"
         THEN RunTestsCollect(lang, exec = "ExitSuccess", d, out)
         ELSE RunBenchmarksCollect(lang, exec = "ExitSuccess", d)

\* HashMap::insert on a map kept as its set of (key, value) pairs.
HashMapInsert(m, k, v) == {e \in m : e[1] # k} \cup {<<k, v>>}

\* The orders in which a HashMap may iterate over the keys in S.
IterationOrders(S) ==
    {p \in [1..Cardinality(S) -> S] : \A i, j \in 1..Cardinality(S) : i # j => p[i] # p[j]}

\* main.rs:236-239 (and 306-309): the keys whose value is true.
SuccessfulKeys(m) == {e[1] : e \in {x \in m : x[2]}}

ListsUpTo(S, n) == UNION {[1..k -> S] : k \in 1..n}

RunInit ==
    /\ args \in {a \in [entry : Entries, languages : ListsUpTo(LangPool, MaxLangs),
                        parallel : BOOLEAN, tests_only : BOOLEAN, benchmarks_only : BOOLEAN] :
                   /\ ~(a.tests_only /\ a.benchmarks_only)
                   /\ a.entry # "run_command" => ~a.tests_only /\ ~a.benchmarks_only}
    /\ stage = CASE args.entry = "api_tests" -> "tests"
                 [] args.entry = "api_benchmarks" -> "benchmarks"
                 [] OTHER -> "setup"
    /\ setup = NewSetup
    /\ setup_results = {}
    /\ setup_state = [l \in LangPool |-> "Pending"]
    /\ successful_languages = << >>
    /\ tasks = IF args.entry \in {"api_tests", "api_benchmarks"}
               THEN NewTasks(args.languages) ELSE << >>
    /\ test_results = << >>
    /\ benchmark_results = << >>
    /\ entered = [test_results |-> 0, benchmark_results |-> 0]
    /\ executed = [l \in LangPool |-> [p \in Phases |-> 0]]
    /\ report = NoReport
    /\ orphans = {}

RunIdle ==
    /\ args = [entry |-> "none", languages |-> << >>, parallel |-> FALSE,
               tests_only |-> FALSE, benchmarks_only |-> FALSE]
    /\ stage = "completed"
    /\ setup = NewSetup
    /\ setup_results = {}
    /\ setup_state = [l \in LangPool |-> "Pending"]
    /\ successful_languages = << >>
    /\ tasks = << >>
    /\ test_results = << >>
    /\ benchmark_results = << >>
    /\ entered = [test_results |-> 0, benchmark_results |-> 0]
    /\ executed = [l \in LangPool |-> [p \in Phases |-> 0]]
    /\ report = NoReport
    /\ orphans = {}

\* The stage that follows a stage of the command (main.rs:258-277, 316-323).
StageAfter(from) ==
    CASE args.entry = "run_command" /\ from = "setup" ->
             IF ~args.benchmarks_only THEN "tests"
             ELSE IF ~args.tests_only THEN "benchmarks" ELSE "report"
      [] args.entry = "run_command" /\ from = "tests" ->
             IF ~args.tests_only THEN "benchmarks" ELSE "report"
      [] args.entry = "run_command" /\ from = "benchmarks" -> "report"
      [] args.entry = "benchmark_command" /\ from = "setup" -> "benchmarks"
      [] args.entry = "benchmark_command" /\ from = "benchmarks" -> "report"
      [] OTHER -> "completed"

PhaseKind == IF stage = "tests" THEN "test_results" ELSE "benchmark_results"

\* runner.rs:45-54 with the loop of setup_implementations (68-79): the next
\* listed language is looked up, its directory checked, its runner created and
\* its setup command started. An unknown language or a missing directory is an
\* Err that the ? at runner.rs:75 and main.rs:235 pass on. PythonRunner::setup
\* first creates the virtual environment when there is none (python.rs:65,
\* 37-38); its own command starts in SetupVenvFinish then.
SetupStart(has_dir, venv_exists) ==
    /\ stage = "setup"
    /\ ~setup.busy
    /\ ~setup.venv
    /\ setup.i <= Len(args.languages)
    /\ LET l == args.languages[setup.i]
       IN  IF l \notin Configured \/ ~has_dir
           THEN /\ stage' = "failed"
                /\ UNCHANGED <<setup, setup_state, executed>>
           ELSE IF ~CreateRunnerKnows(l)
           THEN /\ stage' = "panicked"
                /\ UNCHANGED <<setup, setup_state, executed>>
           ELSE IF NeedsVirtualEnv(l) /\ ~venv_exists
           THEN /\ setup' = [setup EXCEPT !.venv = TRUE, !.last = NoLast]
                /\ setup_state' = [setup_state EXCEPT ![l] = "SettingUp"]
                /\ UNCHANGED <<stage, executed>>
           ELSE /\ setup' = [setup EXCEPT !.busy = TRUE, !.last = NoLast]
                /\ setup_state' = [setup_state EXCEPT ![l] = "SettingUp"]
                /\ executed' = [executed EXCEPT ![l]["setup"] = @ + 1]
                /\ UNCHANGED stage
    /\ UNCHANGED <<args, setup_results, successful_languages, tasks, test_results,
                   benchmark_results, entered, report, orphans, notRun>>

\* python.rs:39-52 and 65-75: `python -m venv venv` is over. Its failure is the
\* setup's failure (the ? at python.rs:65), recorded by runner.rs:56-65 and
\* 75-76; otherwise the setup command of the configuration is started.
SetupVenvFinish(exec) ==
    /\ stage = "setup"
    /\ setup.venv
    /\ LET l == args.languages[setup.i]
           ret == SetupVirtualEnvReturn(FALSE, exec)
           success == SetupSuccess(ret)
       IN  IF ret.tag = "Ok"
           THEN /\ setup' = [setup EXCEPT !.venv = FALSE, !.busy = TRUE]
                /\ executed' = [executed EXCEPT ![l]["setup"] = @ + 1]
                /\ UNCHANGED <<setup_results, setup_state>>
           ELSE /\ setup_results' = HashMapInsert(setup_results, l, success)
                /\ setup_state' = [setup_state EXCEPT
                                      ![l] = IF success THEN "Ready" ELSE "SetupFailed"]
                /\ setup' = [i |-> setup.i + 1, busy |-> FALSE, venv |-> FALSE,
                             last |-> [lang |-> l, step |-> "venv", exec |-> exec]]
                /\ UNCHANGED executed
    /\ UNCHANGED <<args, stage, successful_languages, tasks, test_results,
                   benchmark_results, entered, report, orphans, notRun>>

\* runner.rs:56-65 and 75-76: the setup command is over, its outcome is recorded
\* under the language and the loop moves on.
SetupFinish(exec) ==
    /\ stage = "setup"
    /\ setup.busy
    /\ LET l == args.languages[setup.i]
           success == SetupSuccess(SetupReturn(exec))
       IN  /\ setup_results' = HashMapInsert(setup_results, l, success)
           /\ setup_state' = [setup_state EXCEPT
                                 ![l] = IF success THEN "Ready" ELSE "SetupFailed"]
    /\ setup' = [i |-> setup.i + 1, busy |-> FALSE, venv |-> FALSE,
                 last |-> [lang |-> args.languages[setup.i], step |-> "command",
                           exec |-> exec]]
    /\ UNCHANGED <<args, stage, successful_languages, tasks, test_results,
                   benchmark_results, entered, executed, report, orphans, notRun>>

\* main.rs:236-252 (306-313): the successful languages, in the map's iteration
\* order; none at all is an error.
SetupDone ==
    /\ stage = "setup"
    /\ ~setup.busy
    /\ ~setup.venv
    /\ setup.i > Len(args.languages)
    /\ \E order \in IterationOrders(SuccessfulKeys(setup_results)) :
          /\ successful_languages' = order
          /\ IF order = << >>
             THEN stage' = "failed" /\ UNCHANGED tasks
             ELSE /\ stage' = StageAfter("setup")
                  /\ tasks' = IF stage' \in {"tests", "benchmarks"}
                              THEN NewTasks(order) ELSE tasks
    /\ setup' = [setup EXCEPT !.last = NoLast]
    /\ UNCHANGED <<args, setup_results, setup_state, test_results,
                   benchmark_results, entered, executed, report, orphans, notRun>>

\* runner.rs:94-99 (126-131), up to the start of the command. In run_tests the
\* loop reaches a language when the ones before it are done (runner.rs:86-89);
\* join_all polls the units in list order, and a unit runs up to the start of
\* its command when first polled (runner.rs:148-154). An unknown language is an
\* Err of the unit; a language create_runner does not know panics, which unwinds
\* through the caller and drops the units in flight.
TaskStart(t) ==
    /\ stage \in {"tests", "benchmarks"}
    /\ t \in DOMAIN tasks
    /\ tasks[t].pc = "pending"
    /\ \A j \in 1..(t - 1) : tasks[j].pc # "pending"
    /\ ~args.parallel => \A j \in 1..(t - 1) : tasks[j].pc = "done"
    /\ LET l == tasks[t].lang
       IN  IF l \notin Configured
           THEN /\ tasks' = [tasks EXCEPT ![t].pc = "done",
                                          ![t].ret = Err("Unknown implementation"),
                                          ![t].nth = NumFinished(tasks) + 1]
                /\ stage' = IF args.parallel THEN stage ELSE "failed"
                /\ UNCHANGED <<entered, executed>>
           ELSE IF ~CreateRunnerKnows(l)
           THEN /\ tasks' = [j \in DOMAIN tasks |->
                               IF j = t THEN [tasks[j] EXCEPT !.pc = "panicked"]
                               ELSE IF tasks[j].pc = "running"
                                    THEN [tasks[j] EXCEPT !.pc = "dropped"]
                                    ELSE tasks[j]]
                /\ stage' = "panicked"
                /\ UNCHANGED <<entered, executed>>
           ELSE /\ tasks' = [tasks EXCEPT ![t].pc = "running"]
                /\ entered' = [entered EXCEPT ![PhaseKind] = @ + 1]
                /\ executed' = [executed EXCEPT ![l][PhaseKind] = @ + 1]
                /\ UNCHANGED stage
    /\ UNCHANGED <<args, setup, setup_results, setup_state, successful_languages,
                   test_results, benchmark_results, report, orphans, notRun>>

\* The runner's run_tests / run_benchmarks returns (runner.rs:110, 142). In
\* run_tests / run_benchmarks the ? passes an Err on and ends the loop, an Ok is
\* pushed (runner.rs:87-88, 119-120); under join_all the unit's value is kept
\* until all are in.
TaskFinish(t, exec, has_file) ==
    /\ stage \in {"tests", "benchmarks"}
    /\ t \in DOMAIN tasks
    /\ tasks[t].pc = "running"
    /\ LET l == tasks[t].lang
           d == IF has_file
                THEN {[name |-> FileName(l, PhaseKind, << >>), readable |-> TRUE, ok |-> TRUE,
                       by |-> 0,
                       language |-> l]}
                ELSE {}
           ret == UnitReturn(l, PhaseKind, exec, d, <<{"passed"}>>)
       IN  /\ tasks' = [tasks EXCEPT ![t].pc = "done", ![t].exec = exec, ![t].ret = ret,
                                     ![t].nth = NumFinished(tasks) + 1]
           /\ orphans' = IF CommandOutlivesCall(exec)
                         THEN orphans \cup {<<l, PhaseKind>>} ELSE orphans
           /\ IF args.parallel
              THEN UNCHANGED <<stage, test_results, benchmark_results>>
              ELSE IF ret.tag = "Err"
              THEN stage' = "failed" /\ UNCHANGED <<test_results, benchmark_results>>
              ELSE IF stage = "tests"
              THEN /\ test_results' = Append(test_results, ret.value)
                   /\ UNCHANGED <<stage, benchmark_results>>
              ELSE /\ benchmark_results' = Append(benchmark_results, ret.value)
                   /\ UNCHANGED <<stage, test_results>>
    /\ UNCHANGED <<args, setup, setup_results, setup_state, successful_languages,
                   entered, executed, report, notRun>>

\* mod.rs:59-63: the child a timed-out command left behind exits on its own.
OrphanExits(l, phase) ==
    /\ <<l, phase>> \in orphans
    /\ orphans' = orphans \ {<<l, phase>>}
    /\ UNCHANGED <<args, stage, setup, setup_results, setup_state, successful_languages,
                   tasks, test_results, benchmark_results, entered, executed, report,
                   notRun>>

RECURSIVE OkValues_Reversed(_)
OkValues_Reversed(ts) ==
    IF ts = << >> THEN << >>
    ELSE OkValues_Reversed(Tail(ts))
         \o (IF Head(ts).ret.tag = "Ok" THEN <<Head(ts).ret.value>> ELSE << >>)

\* runner.rs:156-164 (178-186): the Ok values of the units, in list order.
RECURSIVE OkValues(_)
OkValues(ts) ==
    IF ts = << >> THEN << >>
    ELSE (IF Head(ts).ret.tag = "Ok" THEN <<Head(ts).ret.value>> ELSE << >>)
         \o OkValues(Tail(ts))

\* The phase function returns Ok: run_tests / run_benchmarks after the loop
\* (runner.rs:91, 123), the parallel ones after join_all (runner.rs:154-164,
\* 176-186). The command goes on to its next stage (main.rs:258-272).
PhaseReturn ==
    /\ stage \in {"tests", "benchmarks"}
    /\ \A j \in DOMAIN tasks : tasks[j].pc = "done"
    /\ IF ~args.parallel
       THEN UNCHANGED <<test_results, benchmark_results>>
       ELSE IF stage = "tests"
       THEN test_results' = OkValues(tasks) /\ UNCHANGED benchmark_results
       ELSE benchmark_results' = OkValues(tasks) /\ UNCHANGED test_results
    /\ stage' = StageAfter(stage)
    /\ tasks' = IF stage' \in {"tests", "benchmarks"}
                THEN NewTasks(successful_languages) ELSE tasks
    /\ UNCHANGED <<args, setup, setup_results, setup_state, successful_languages,
                   entered, executed, report, orphans, notRun>>

\* main.rs:275-277: run_command builds the report unless both lists are empty;
\* main.rs:323: benchmark_command always builds it. runner.rs:268-269.
GenerateReport ==
    /\ stage = "report"
    /\ report' = IF args.entry = "run_command" /\ test_results = << >>
                    /\ benchmark_results = << >>
                 THEN report
                 ELSE [made |-> TRUE, test_results |-> test_results,
                       benchmark_results |-> benchmark_results]
    /\ stage' = "completed"
    /\ UNCHANGED <<args, setup, setup_results, setup_state, successful_languages, tasks,
                   test_results, benchmark_results, entered, executed, orphans, notRun>>

RunNext ==
    \/ \E has_dir \in BOOLEAN, venv_exists \in BOOLEAN :
          SetupStart(has_dir, venv_exists)
    \/ \E exec \in ExecOutcomes : SetupVenvFinish(exec)
    \/ \E exec \in ExecOutcomes : SetupFinish(exec)
    \/ SetupDone
    \/ \E t \in 1..MaxLangs : TaskStart(t)
    \/ \E t \in 1..MaxLangs, exec \in ExecOutcomes, has_file \in BOOLEAN :
          TaskFinish(t, exec, has_file)
    \/ \E l \in LangPool, phase \in {"test_results", "benchmark_results"} :
          OrphanExits(l, phase)
    \/ PhaseReturn
    \/ GenerateReport

(***************************************************************************)
(* SpecLoad: one load_result_from_file call over a results directory that *)
(* holds well-formed, malformed and unreadable files.                      *)
(***************************************************************************)
MaxFiles == 2       \* files in the directory of SpecLoad

LoadLangs == {"java", "javascript", "csharp"}

\* The files a directory may hold for a result kind: each name with its content
\* readable and well-formed, readable and malformed, or not readable.
CandidateFiles(result_type) ==
    {[name |-> FileName(l, result_type, sfx), readable |-> fl[1], ok |-> fl[2], by |-> 0,
      language |-> l] :
        l \in {"java", "javascript"}, sfx \in Suffixes,
        fl \in {<<TRUE, TRUE>>, <<TRUE, FALSE>>, <<FALSE, TRUE>>}}

\* Directories of at most n candidate files; a name occurs once in a directory.
Directories(result_type, n) ==
    {D \in {{}} \cup UNION {{{s[i] : i \in 1..k} : s \in [1..k -> CandidateFiles(result_type)]} :
                               k \in 1..n} :
        \A f, g \in D : f.name = g.name => f = g}

LoadIdle == load = [pc |-> "idle", d |-> {}, lang |-> "none", kind |-> "none", ret |-> NoFile]

LoadInit ==
    \E k \in Kinds, l \in LoadLangs :
        \E D \in Directories(k, MaxFiles) :
            load = [pc |-> "call", d |-> D, lang |-> l, kind |-> k, ret |-> NoFile]

\* javascript.rs:63-64: self.base.load_result_from_file(results_dir, pattern)
DoLoad ==
    /\ load.pc = "call"
    /\ load' = [load EXCEPT !.pc = "returned",
                            !.ret = LoadResultFromFile(load.d, LoadPattern(load.lang, load.kind))]
    /\ UNCHANGED notLoad

LoadNext == DoLoad

(***************************************************************************)
(* SpecReport: ComparisonReport::new over a list of test results and a     *)
(* list of benchmark results (results.rs:516-569). Times are whole         *)
(* milliseconds; a pass rate is kept as the fraction <<passed, total>> and  *)
(* compared by cross-multiplication, which orders fractions as the f64     *)
(* quotients of the code are ordered.                                      *)
(***************************************************************************)
MaxResults == 3     \* results in one report, over its two lists
MaxTotal == 2       \* summary.total of a test result
MaxAvg == 2         \* summary.avg_time_per_case_ms of a benchmark result

NoneOpt == "None"

\* The language of the result at a place of a list.
ReportLangs == <<"javascript", "python", "java", "go">>

TestResultWith(language, total, passed) ==
    [TestResultNew(language) EXCEPT !.summary.total = total, !.summary.passed = passed,
                                    !.summary.failed = total - passed]

BenchmarkResultWith(language, avg, cases) ==
    [BenchmarkResultNew(language) EXCEPT !.summary.avg_time_per_case_ms = avg,
                                         !.summary.total_cases = cases,
                                         !.summary.total_time_ms = avg * cases]

TestResultsAt(i) ==
    UNION {{TestResultWith(ReportLangs[i], t, p) : p \in 0..t} : t \in 0..MaxTotal}

BenchmarkResultsAt(i) ==
    {BenchmarkResultWith(ReportLangs[i], a, c) : a \in 0..MaxAvg, c \in {1, 2}}
    \cup {CreateErrorBenchmarkResult(ReportLangs[i], "stderr")}

\* The lists of k results, the i-th from the i-th language.
RECURSIVE TestResultLists(_)
TestResultLists(k) ==
    IF k = 0 THEN {<< >>}
    ELSE {Append(s, r) : s \in TestResultLists(k - 1), r \in TestResultsAt(k)}

RECURSIVE BenchmarkResultLists(_)
BenchmarkResultLists(k) ==
    IF k = 0 THEN {<< >>}
    ELSE {Append(s, r) : s \in BenchmarkResultLists(k - 1), r \in BenchmarkResultsAt(k)}

\* f64::partial_cmp on two times (results.rs:537-539).
PartialCmp(a, b) == IF a < b THEN "Less" ELSE IF a > b THEN "Greater" ELSE "Equal"

\* Mutant of PassRate: a result without cases counts as fully passed.
PassRate_ZeroIsOne(r) ==
    IF r.summary.total > 0 THEN <<r.summary.passed, r.summary.total>> ELSE <<1, 1>>

\* results.rs:547-551: passed / total, or 0.0 when total is 0.
PassRate(r) ==
    IF r.summary.total > 0 THEN <<r.summary.passed, r.summary.total>> ELSE <<0, 1>>

\* results.rs:557: a_rate.partial_cmp(&b_rate)
RateCmp(x, y) == PartialCmp(x[1] * y[2], y[1] * x[2])

\* Mutant of MinByFold: of equal elements the later one is kept.
RECURSIVE MinByFold_KeepsLast(_, _)
MinByFold_KeepsLast(best, rest) ==
    IF rest = << >> THEN best
    ELSE IF PartialCmp(best.summary.avg_time_per_case_ms,
                       Head(rest).summary.avg_time_per_case_ms) \in {"Greater", "Equal"}
         THEN MinByFold_KeepsLast(Head(rest), Tail(rest))
         ELSE MinByFold_KeepsLast(best, Tail(rest))

\* Iterator::min_by with the comparison of results.rs:536-540: the fold keeps
\* the element it holds unless the next one compares smaller.
RECURSIVE MinByFold(_, _)
MinByFold(best, rest) ==
    IF rest = << >> THEN best
    ELSE IF PartialCmp(best.summary.avg_time_per_case_ms,
                       Head(rest).summary.avg_time_per_case_ms) = "Greater"
         THEN MinByFold(Head(rest), Tail(rest))
         ELSE MinByFold(best, Tail(rest))

\* Mutant of MaxByFold: of equal elements the earlier one is kept.
RECURSIVE MaxByFold_KeepsFirst(_, _)
MaxByFold_KeepsFirst(best, rest) ==
    IF rest = << >> THEN best
    ELSE IF RateCmp(PassRate(best), PassRate(Head(rest))) \in {"Greater", "Equal"}
         THEN MaxByFold_KeepsFirst(best, Tail(rest))
         ELSE MaxByFold_KeepsFirst(Head(rest), Tail(rest))

\* Iterator::max_by with the comparison of results.rs:546-558: the fold keeps
\* the element it holds only when it compares greater than the next one.
RECURSIVE MaxByFold(_, _)
MaxByFold(best, rest) ==
    IF rest = << >> THEN best
    ELSE IF RateCmp(PassRate(best), PassRate(Head(rest))) = "Greater"
         THEN MaxByFold(best, Tail(rest))
         ELSE MaxByFold(Head(rest), Tail(rest))

\* Mutant of FastestImplementation: results with an error take no part.
FastestImplementation_SkipsErrors(brs) ==
    LET sound == SelectSeq(brs, LAMBDA r : r.error = "None")
    IN  IF sound = << >> THEN NoneOpt
        ELSE MinByFold(Head(sound), Tail(sound)).language

\* results.rs:534-542
FastestImplementation(brs) ==
    IF brs = << >> THEN NoneOpt
    ELSE MinByFold(Head(brs), Tail(brs)).language

\* results.rs:544-560
MostCompliantImplementation(trs) ==
    IF trs = << >> THEN NoneOpt
    ELSE MaxByFold(Head(trs), Tail(trs)).language

\* results.rs:530 test_results.iter().map(|r| r.summary.total).sum()
RECURSIVE TotalTests(_)
TotalTests(trs) == IF trs = << >> THEN 0 ELSE Head(trs).summary.total + TotalTests(Tail(trs))

\* results.rs:531 benchmark_results.iter().map(|r| r.summary.total_cases).sum()
RECURSIVE TotalBenchmarks(_)
TotalBenchmarks(brs) ==
    IF brs = << >> THEN 0 ELSE Head(brs).summary.total_cases + TotalBenchmarks(Tail(brs))

\* Mutant of LanguagesTested: the two lengths are added.
LanguagesTested_Sum(trs, brs) == Len(trs) + Len(brs)

\* results.rs:529 test_results.len().max(benchmark_results.len())
LanguagesTested(trs, brs) == IF Len(trs) >= Len(brs) THEN Len(trs) ELSE Len(brs)

\* results.rs:528-568 calculate_summary
CalculateSummary(trs, brs) ==
    [languages_tested |-> LanguagesTested(trs, brs),
     total_tests |-> TotalTests(trs),
     total_benchmarks |-> TotalBenchmarks(brs),
     fastest_implementation |-> FastestImplementation(brs),
     most_compliant_implementation |-> MostCompliantImplementation(trs)]

NoSummary ==
    [languages_tested |-> 0, total_tests |-> 0, total_benchmarks |-> 0,
     fastest_implementation |-> NoneOpt, most_compliant_implementation |-> NoneOpt]

CmpIdle ==
    cmp = [pc |-> "idle", test_results |-> << >>, benchmark_results |-> << >>,
           summary |-> NoSummary]

CmpInit ==
    \E kt \in 0..MaxResults, kb \in 0..MaxResults :
      \E trs \in TestResultLists(kt), brs \in BenchmarkResultLists(kb) :
        /\ kt + kb <= MaxResults
        /\ cmp = [pc |-> "call", test_results |-> trs, benchmark_results |-> brs,
                  summary |-> NoSummary]

\* results.rs:516-527 ComparisonReport::new
ComparisonReportNew ==
    /\ cmp.pc = "call"
    /\ cmp' = [cmp EXCEPT !.pc = "built",
                          !.summary = CalculateSummary(cmp.test_results, cmp.benchmark_results)]
    /\ UNCHANGED notCmp

ReportNext == ComparisonReportNew

(***************************************************************************)
(* SpecBench: run_benchmarks loads the result file the implementation's    *)
(* benchmark driver wrote, and generate_report puts the result in a        *)
(* report. The file's document is any value of the BenchmarkResult type:   *)
(* of a BenchmarkCaseResult the model keeps the raw samples (times) and    *)
(* the whole-number statistics iterations, total_time_ms, min_time_ms and  *)
(* max_time_ms.                                                            *)
(***************************************************************************)
MaxSamples == 2     \* samples in the times of a benchmark case
MaxSample == 2      \* a sample, in ms

BenchmarkCaseResults ==
    [times : SeqsUpTo(1..MaxSample, MaxSamples),
     iterations : 0..MaxSamples,
     total_time_ms : 0..(MaxSamples * MaxSample),
     min_time_ms : 0..MaxSample,
     max_time_ms : 0..MaxSample]

\* results.rs:338-349 BenchmarkResult::add_benchmark_case; the average is kept
\* as the whole quotient.
AddBenchmarkCase(r, c) ==
    [r EXCEPT !.benchmarks = Append(r.benchmarks, c),
              !.summary = [total_cases |-> @.total_cases + 1,
                           total_iterations |-> @.total_iterations + c.iterations,
                           total_time_ms |-> @.total_time_ms + c.total_time_ms,
                           avg_time_per_case_ms |->
                               (@.total_time_ms + c.total_time_ms) \div (@.total_cases + 1)]]

\* The documents a benchmark result file may hold for a language: a result
\* with no case or with one case.
BenchmarkDocuments(language) ==
    {BenchmarkResultNew(language)}
    \cup {AddBenchmarkCase(BenchmarkResultNew(language), c) : c \in BenchmarkCaseResults}

\* mod.rs:88-89 read_to_string and serde_json::from_str::<BenchmarkResult>: the
\* derived Deserialize takes every field of the document as it stands.
FromStr(f) == f.doc

\* javascript.rs:91-97 with mod.rs:79-98: the result run_benchmarks returns
\* after a successful command, from the first file that reads and parses.
RunBenchmarksLoad(lang, d) ==
    LET f == LoadResultFromFile(d, LoadPattern(lang, "benchmark_results"))
    IN  IF f # NoFile THEN Ok(FromStr(f))
        ELSE Ok(CreateErrorBenchmarkResult(lang, "No results file generated"))

BenchIdle == bench = [pc |-> "idle", d |-> {}, ret |-> NoRet, report |-> << >>]

BenchInit ==
    \E doc \in BenchmarkDocuments("java") :
        bench = [pc |-> "call",
                 d |-> {[name |-> FileName("java", "benchmark_results", << >>),
                         readable |-> TRUE, ok |-> TRUE, by |-> 0, language |-> "java",
                         doc |-> doc]},
                 ret |-> NoRet, report |-> << >>]

\* javascript.rs:73-98 run_benchmarks, the command having exited with success
BenchRunBenchmarks ==
    /\ bench.pc = "call"
    /\ bench' = [bench EXCEPT !.pc = "returned", !.ret = RunBenchmarksLoad("java", bench.d)]
    /\ UNCHANGED notBench

\* main.rs:275-277, runner.rs:267-268: the result goes into the report
BenchGenerateReport ==
    /\ bench.pc = "returned"
    /\ bench' = [bench EXCEPT !.pc = "reported", !.report = <<bench.ret.value>>]
    /\ UNCHANGED notBench

BenchNext ==
    \/ BenchRunBenchmarks
    \/ BenchGenerateReport

(***************************************************************************)
(* f64 (results.rs keeps every time and statistic as f64). A finite value  *)
(* is sign, mantissa and exponent: (-1)^s * m * 2^e with 2^52 <= m < 2^53, *)
(* or zero. The mantissa is a whole number in limbs of LimbBits bits, the  *)
(* least significant first, as no machine integer of the checker holds 53  *)
(* bits. Every operation rounds to nearest, ties to even, as IEEE 754      *)
(* does; infinities, NaN, subnormals and the sign of zero are left out.    *)
(***************************************************************************)
MantissaBits == 53
LimbBits == 15
Base == 2^LimbBits

\* whole numbers in limbs, without zero limbs at the top; << >> is 0
RECURSIVE Norm(_)
Norm(a) ==
    IF a = << >> THEN << >>
    ELSE IF a[Len(a)] # 0 THEN a
    ELSE Norm(SubSeq(a, 1, Len(a) - 1))

Limb(a, i) == IF i \in 1..Len(a) THEN a[i] ELSE 0

MaxOf(x, y) == IF x > y THEN x ELSE y

RECURSIVE AddFrom(_, _, _, _, _)
AddFrom(a, b, i, carry, acc) ==
    IF i > MaxOf(Len(a), Len(b)) THEN Norm(Append(acc, carry))
    ELSE LET t == Limb(a, i) + Limb(b, i) + carry
         IN  AddFrom(a, b, i + 1, t \div Base, Append(acc, t % Base))

BigAdd(a, b) == AddFrom(a, b, 1, 0, << >>)

RECURSIVE SubFrom(_, _, _, _, _)
SubFrom(a, b, i, borrow, acc) ==
    IF i > Len(a) THEN Norm(acc)
    ELSE LET t == Limb(a, i) - Limb(b, i) - borrow
         IN  SubFrom(a, b, i + 1, IF t < 0 THEN 1 ELSE 0, Append(acc, (t + Base) % Base))

\* a - b for a >= b
BigSub(a, b) == SubFrom(a, b, 1, 0, << >>)

BigLess(a, b) ==
    IF Len(a) # Len(b) THEN Len(a) < Len(b)
    ELSE \E i \in 1..Len(a) : a[i] < b[i] /\ \A j \in (i + 1)..Len(a) : a[j] = b[j]

\* a times one limb d
RECURSIVE MulLimbFrom(_, _, _, _, _)
MulLimbFrom(a, d, i, carry, acc) ==
    IF i > Len(a) THEN Norm(Append(acc, carry))
    ELSE LET t == a[i] * d + carry
         IN  MulLimbFrom(a, d, i + 1, t \div Base, Append(acc, t % Base))

MulLimb(a, d) == MulLimbFrom(a, d, 1, 0, << >>)

ShlLimbs(a, q) == IF a = << >> THEN << >> ELSE [i \in 1..q |-> 0] \o a

RECURSIVE MulFrom(_, _, _, _)
MulFrom(a, b, j, acc) ==
    IF j > Len(b) THEN acc
    ELSE MulFrom(a, b, j + 1, BigAdd(acc, ShlLimbs(MulLimb(a, b[j]), j - 1)))

BigMul(a, b) == MulFrom(a, b, 1, << >>)

\* a * 2^k and the whole part of a / 2^k
ShlBits(a, k) == ShlLimbs(MulLimb(a, 2^(k % LimbBits)), k \div LimbBits)

ShrBits(a, k) ==
    LET q == k \div LimbBits
        r == k % LimbBits
    IN  Norm([i \in 1..(Len(a) - q) |->
                (Limb(a, i + q) \div 2^r) + (Limb(a, i + q + 1) % 2^r) * 2^(LimbBits - r)])

\* bit k of a, bit 0 the least significant
TestBit(a, k) == (Limb(a, k \div LimbBits + 1) \div 2^(k % LimbBits)) % 2

BitLen(a) ==
    IF a = << >> THEN 0
    ELSE LimbBits * (Len(a) - 1)
         + (CHOOSE n \in 1..LimbBits : 2^(n - 1) <= a[Len(a)] /\ a[Len(a)] < 2^n)

\* quotient and remainder of a by a positive n below Base
RECURSIVE DivFrom(_, _, _, _, _)
DivFrom(a, n, i, r, q) ==
    IF i = 0 THEN <<Norm(q), r>>
    ELSE LET t == r * Base + a[i]
         IN  DivFrom(a, n, i - 1, t % n, <<t \div n>> \o q)

DivSmall(a, n) == DivFrom(a, n, Len(a), 0, << >>)

\* a whole number below Base^2 in limbs, and back
ToLimbs(k) == Norm(<<k % Base, k \div Base>>)
ToInt(a) == Limb(a, 1) + Base * Limb(a, 2)

FZero == [s |-> 0, m |-> << >>, e |-> 0]

\* The f64 nearest to (-1)^s * (mag + a fraction) * 2^e, the fraction below
\* one and non-zero exactly when sticky holds: round to nearest, ties to even.
FRound(s, mag, e, sticky) ==
    LET k == BitLen(mag) - MantissaBits
    IN  IF mag = << >> THEN FZero
        ELSE IF k <= 0 THEN [s |-> s, m |-> ShlBits(mag, -k), e |-> e + k]
        ELSE LET kept == ShrBits(mag, k)
                 more == sticky \/ \E i \in 0..(k - 2) : TestBit(mag, i) = 1
                 up == TestBit(mag, k - 1) = 1 /\ (more \/ TestBit(kept, 0) = 1)
                 m1 == IF up THEN BigAdd(kept, <<1>>) ELSE kept
             IN  IF BitLen(m1) > MantissaBits
                 THEN [s |-> s, m |-> ShrBits(m1, 1), e |-> e + k + 1]
                 ELSE [s |-> s, m |-> m1, e |-> e + k]

FNeg(a) == IF a = FZero THEN FZero ELSE [a EXCEPT !.s = 1 - a.s]

\* a + b
FAdd(a, b) ==
    IF a = FZero THEN b
    ELSE IF b = FZero THEN a
    ELSE LET e == IF a.e < b.e THEN a.e ELSE b.e
             am == ShlBits(a.m, a.e - e)
             bm == ShlBits(b.m, b.e - e)
         IN  IF a.s = b.s THEN FRound(a.s, BigAdd(am, bm), e, FALSE)
             ELSE IF am = bm THEN FZero
             ELSE IF BigLess(am, bm) THEN FRound(b.s, BigSub(bm, am), e, FALSE)
             ELSE FRound(a.s, BigSub(am, bm), e, FALSE)

\* a - b
FSub(a, b) == FAdd(a, FNeg(b))

\* a * b
FMul(a, b) ==
    IF a = FZero \/ b = FZero THEN FZero
    ELSE FRound((a.s + b.s) % 2, BigMul(a.m, b.m), a.e + b.e, FALSE)

\* `n as f64` for a count n, exact below 2^53
FromInt(n) == FRound(0, ToLimbs(n), 0, FALSE)

\* a / (n as f64) for a count n >= 1: the quotient is taken to 2 * LimbBits
\* bits below the mantissa, what is left of it is the sticky bit
FDivInt(a, n) ==
    IF a = FZero THEN FZero
    ELSE LET qr == DivSmall(ShlLimbs(a.m, 2), n)
         IN  FRound(a.s, qr[1], a.e - 2 * LimbBits, qr[2] # 0)

\* a.partial_cmp(b) == Some(Less)
FLess(a, b) == FSub(a, b).s = 1

\* f64::floor and f64::ceil `as usize`, for 0 <= a < Base^2
FIsWhole(a) == a = FZero \/ a.e >= 0 \/ \A i \in 0..(-a.e - 1) : TestBit(a.m, i) = 0
FFloor(a) ==
    IF a = FZero THEN 0
    ELSE IF a.e >= 0 THEN ToInt(ShlBits(a.m, a.e))
    ELSE ToInt(ShrBits(a.m, -a.e))
FCeil(a) == IF FIsWhole(a) THEN FFloor(a) ELSE FFloor(a) + 1

\* The bits `from` down to `to` of the whole root of n, r holding the bits above.
RECURSIVE RootBits(_, _, _, _)
RootBits(n, r, from, to) ==
    IF from < to THEN r
    ELSE LET c == BigAdd(r, ShlBits(<<1>>, from))
             next == IF BigLess(n, BigMul(c, c)) THEN r ELSE c
         IN  \* the test has next evaluated before the step down
             IF Len(next) >= 0 THEN RootBits(n, next, from - 1, to) ELSE << >>

\* the whole part of the square root of n < 2^(4 * RootChunk * 2)
RootChunk == 14
BigRoot(n) ==
    LET r1 == RootBits(n, << >>, 4 * RootChunk - 1, 3 * RootChunk)
        r2 == RootBits(n, r1, 3 * RootChunk - 1, 2 * RootChunk)
        r3 == RootBits(n, r2, 2 * RootChunk - 1, RootChunk)
    IN  RootBits(n, r3, RootChunk - 1, 0)

\* f64::sqrt for a >= 0: the root of the mantissa widened to 111 or 112 bits,
\* taken with the exponent even, rounded once
FSqrt(a) ==
    IF a = FZero THEN FZero
    ELSE LET j == IF a.e % 2 = 0 THEN 58 ELSE 59
             n == ShlBits(a.m, j)
             r == BigRoot(n)
         IN  FRound(0, r, (a.e - j) \div 2, BigMul(r, r) # n)

(***************************************************************************)
(* StatisticalSummary (results.rs:596-658).                                *)
(***************************************************************************)
MaxValues == 3      \* samples handed to StatisticalSummary::calculate

\* Times as a result file gives them: the f64 nearest to a number of tenths.
Tenths(k) == FDivInt(FromInt(k), 10)
Samples == {Tenths(1), Tenths(3), Tenths(7), FromInt(2)}

\* The percentiles asked for, in percent.
Percents == {0, 50, 95, 99, 100}

\* results.rs:611-612 sort_by(partial_cmp): a stable sort, x put behind every
\* element that is not greater than it.
RECURSIVE InsertSorted(_, _)
InsertSorted(s, x) ==
    IF s = << >> THEN <<x>>
    ELSE IF FLess(x, Head(s)) THEN <<x>> \o s
    ELSE <<Head(s)>> \o InsertSorted(Tail(s), x)

RECURSIVE SortBy(_)
SortBy(values) ==
    IF values = << >> THEN << >>
    ELSE InsertSorted(SortBy(SubSeq(values, 1, Len(values) - 1)), values[Len(values)])

\* values.iter().sum::<f64>(): the additions from 0.0 on, left to right
RECURSIVE FSum(_)
FSum(values) ==
    IF values = << >> THEN FZero
    ELSE FAdd(FSum(SubSeq(values, 1, Len(values) - 1)), values[Len(values)])

\* results.rs:614
Mean(values) == FDivInt(FSum(values), Len(values))

\* the median of results.rs:615-619 taken over the values as they come
Median_Unsorted(values) ==
    LET n == Len(values)
    IN  IF n % 2 = 0
        THEN FDivInt(FAdd(values[n \div 2], values[n \div 2 + 1]), 2)
        ELSE values[n \div 2 + 1]

\* results.rs:611-619; sorted_values[i] of the source is sorted[i + 1] here
Median(values) ==
    LET sorted == SortBy(values)
        n == Len(sorted)
    IN  IF n % 2 = 0
        THEN FDivInt(FAdd(sorted[n \div 2], sorted[n \div 2 + 1]), 2)
        ELSE sorted[n \div 2 + 1]

\* results.rs:621-624: the squared deviations from the mean, summed, over N
Variance(values) ==
    LET mean == Mean(values)
    IN  FDivInt(FSum([i \in 1..Len(values) |->
                        FMul(FSub(values[i], mean), FSub(values[i], mean))]),
                Len(values))

\* results.rs:625
StdDev(values) == FSqrt(Variance(values))

\* sorted_values[i]: an index past the end panics
Panic == [panic |-> TRUE]
At(sorted, i) == IF i \in 0..(Len(sorted) - 1) THEN sorted[i + 1] ELSE Panic

PercentileIndex_Len(sorted, p) == FMul(FDivInt(FromInt(p), 100), FromInt(Len(sorted)))

\* results.rs:648
PercentileIndex(sorted, p) == FMul(FDivInt(FromInt(p), 100), FromInt(Len(sorted) - 1))

NoPercentile == [index |-> FZero, lower_index |-> 0, upper_index |-> 0, value |-> FZero]

\* results.rs:643-658 percentile, with the index and the two positions it took
Percentile(sorted, p) ==
    IF sorted = << >> THEN NoPercentile
    ELSE LET index == PercentileIndex(sorted, p)
             lower_index == FFloor(index)
             upper_index == FCeil(index)
             lower == At(sorted, lower_index)
             upper == At(sorted, upper_index)
             weight == FSub(index, FromInt(lower_index))
         IN  [index |-> index, lower_index |-> lower_index, upper_index |-> upper_index,
              value |-> IF lower = Panic \/ upper = Panic THEN Panic
                        ELSE IF lower_index = upper_index THEN lower
                        ELSE FAdd(FMul(lower, FSub(FromInt(1), weight)), FMul(upper, weight))]

\* results.rs:597-641 StatisticalSummary::calculate
Calculate(values) ==
    IF values = << >>
    THEN [mean |-> FZero, median |-> FZero, std_dev |-> FZero, percentile_95 |-> FZero,
          percentile_99 |-> FZero, min |-> FZero, max |-> FZero]
    ELSE LET sorted == SortBy(values)
         IN  [mean |-> Mean(values),
              median |-> Median(values),
              std_dev |-> StdDev(values),
              percentile_95 |-> Percentile(sorted, 95).value,
              percentile_99 |-> Percentile(sorted, 99).value,
              min |-> sorted[1],
              max |-> sorted[Len(sorted)]]

(***************************************************************************)
(* SpecStats: StatisticalSummary::calculate on a list of samples, and      *)
(* percentile on the sorted list.                                          *)
(***************************************************************************)
NoSummaryYet == Calculate(<< >>)

StatIdle ==
    stat = [pc |-> "idle", values |-> << >>, p |-> 0, summary |-> NoSummaryYet,
            pct |-> NoPercentile]

StatInit ==
    \E values \in SeqsUpTo(Samples, MaxValues) :
        stat = [pc |-> "call", values |-> values, p |-> 0, summary |-> NoSummaryYet,
                pct |-> NoPercentile]

StatCalculate ==
    /\ stat.pc = "call"
    /\ stat' = [stat EXCEPT !.pc = "calculated", !.summary = Calculate(stat.values)]
    /\ UNCHANGED notStat

\* percentile is handed the sorted values (results.rs:627-628)
StatPercentile(p) ==
    /\ stat.pc = "call"
    /\ stat' = [stat EXCEPT !.pc = "percentile", !.p = p,
                            !.pct = Percentile(SortBy(stat.values), p)]
    /\ UNCHANGED notStat

StatNext ==
    \/ StatCalculate
    \/ \E p \in Percents : StatPercentile(p)

(***************************************************************************)
(* PythonRunner (python.rs) and find_virtual_env_python (utils.rs): which  *)
(* interpreter the configured command is run with.                         *)
(***************************************************************************)
MaxTokens == 2      \* tokens of a configured command

\* utils.rs:97
venv_dirs == <<"venv", ".venv", "env", ".env">>

\* Of a directory under impl_dir: not there, there without bin/python, or
\* there with bin/python in it.
DirStates == {"absent", "empty", "python"}
ImplDirs == [{venv_dirs[i] : i \in 1..Len(venv_dirs)} -> DirStates]

\* utils.rs:101-106 venv_path.join("bin").join("python")
PythonPath(venv_dir) ==
    CASE venv_dir = "venv"  -> "venv/bin/python"
      [] venv_dir = ".venv" -> ".venv/bin/python"
      [] venv_dir = "env"   -> "env/bin/python"
      [] venv_dir = ".env"  -> ".env/bin/python"

\* utils.rs:96-115 find_virtual_env_python, from the i-th directory on
RECURSIVE FindFrom(_, _)
FindFrom(impl_dir, i) ==
    IF i > Len(venv_dirs) THEN NoneOpt
    ELSE IF impl_dir[venv_dirs[i]] = "python" THEN PythonPath(venv_dirs[i])
    ELSE FindFrom(impl_dir, i + 1)

FindVirtualEnvPython(impl_dir) == FindFrom(impl_dir, 1)

\* python.rs:21-31 get_python_executable
GetPythonExecutable(impl_dir) ==
    IF FindVirtualEnvPython(impl_dir) # NoneOpt THEN FindVirtualEnvPython(impl_dir)
    ELSE "python"

\* python.rs:71-74 (101-104, 138-141): the command handed to execute_command
WithPythonExecutable(command, python_exe) ==
    IF command # << >> /\ command[1] = "python"
    THEN [command EXCEPT ![1] = python_exe]
    ELSE command

\* The tokens a configured command of the Python implementation is made of.
PyTokens == {"python", "python3", "test_runner.py"}

(***************************************************************************)
(* SpecPy: one setup, run_tests or run_benchmarks call of the PythonRunner *)
(* up to the command it hands to execute_command.                          *)
(***************************************************************************)
PyIdle ==
    py = [pc |-> "idle", impl_dir |-> [d \in {venv_dirs[i] : i \in 1..Len(venv_dirs)} |-> "absent"],
          phase |-> "none", command |-> << >>, handed |-> FALSE, ran |-> << >>]

PyInit ==
    \E impl_dir \in ImplDirs, command \in SeqsUpTo(PyTokens, MaxTokens) :
        py = [pc |-> "call", impl_dir |-> impl_dir, phase |-> "none", command |-> command,
              handed |-> FALSE, ran |-> << >>]

\* python.rs:61-79 setup: setup_virtual_env (33-52) creates venv when there is
\* none, which may fail; then the interpreter is looked up and the setup
\* command handed to execute_command.
PySetup(created) ==
    /\ py.pc = "call"
    /\ LET impl_dir == IF py.impl_dir["venv"] = "absent" /\ created
                       THEN [py.impl_dir EXCEPT !["venv"] = "python"]
                       ELSE py.impl_dir
       IN  IF py.impl_dir["venv"] = "absent" /\ ~created
           THEN py' = [py EXCEPT !.pc = "done", !.phase = "setup"]
           ELSE py' = [py EXCEPT !.pc = "done", !.phase = "setup", !.impl_dir = impl_dir,
                                 !.handed = TRUE,
                                 !.ran = WithPythonExecutable(py.command,
                                                              GetPythonExecutable(impl_dir))]
    /\ UNCHANGED notPy

\* python.rs:91-110 run_tests and 128-147 run_benchmarks, up to execute_command
PyRun(phase) ==
    /\ py.pc = "call"
    /\ py' = [py EXCEPT !.pc = "done", !.phase = phase, !.handed = TRUE,
                        !.ran = WithPythonExecutable(py.command,
                                                     GetPythonExecutable(py.impl_dir))]
    /\ UNCHANGED notPy

PyNext ==
    \/ \E created \in BOOLEAN : PySetup(created)
    \/ \E phase \in {"test", "benchmark"} : PyRun(phase)

(***************************************************************************)
(* Specifications.                                                         *)
(***************************************************************************)
InitInvoker == InvokerInit /\ ResultIdle /\ RunnerIdle /\ RunIdle /\ LoadIdle /\ CmpIdle /\ BenchIdle /\ StatIdle /\ PyIdle

SpecInvoker == InitInvoker /\ [][InvokerNext]_vars

InitResult == ResultInit /\ InvokerInit /\ RunnerIdle /\ RunIdle /\ LoadIdle /\ CmpIdle /\ BenchIdle /\ StatIdle /\ PyIdle

SpecResult == InitResult /\ [][ResultNext]_vars

InitRunner == RunnerInit /\ InvokerInit /\ ResultIdle /\ RunIdle /\ LoadIdle /\ CmpIdle /\ BenchIdle /\ StatIdle /\ PyIdle

SpecRunner == InitRunner /\ [][RunnerNext]_vars

InitRun == RunInit /\ InvokerInit /\ ResultIdle /\ RunnerIdle /\ LoadIdle /\ CmpIdle /\ BenchIdle /\ StatIdle /\ PyIdle

SpecRun == InitRun /\ [][RunNext]_vars

InitLoad == LoadInit /\ InvokerInit /\ ResultIdle /\ RunnerIdle /\ RunIdle /\ CmpIdle /\ BenchIdle /\ StatIdle /\ PyIdle

SpecLoad == InitLoad /\ [][LoadNext]_vars

InitReport == CmpInit /\ InvokerInit /\ ResultIdle /\ RunnerIdle /\ RunIdle /\ LoadIdle /\ BenchIdle /\ StatIdle /\ PyIdle

SpecReport == InitReport /\ [][ReportNext]_vars

InitBench == BenchInit /\ InvokerInit /\ ResultIdle /\ RunnerIdle /\ RunIdle /\ LoadIdle /\ CmpIdle /\ StatIdle /\ PyIdle

SpecBench == InitBench /\ [][BenchNext]_vars

InitStats == StatInit /\ InvokerInit /\ ResultIdle /\ RunnerIdle /\ RunIdle /\ LoadIdle /\ CmpIdle /\ BenchIdle /\ PyIdle

SpecStats == InitStats /\ [][StatNext]_vars

InitPy == PyInit /\ InvokerInit /\ ResultIdle /\ RunnerIdle /\ RunIdle /\ LoadIdle /\ CmpIdle /\ BenchIdle /\ StatIdle

SpecPy == InitPy /\ [][PyNext]_vars

\* ======================= CLAIMS =======================

(***************************************************************************)
(* C1: when execute_command has returned, on any path, the child it        *)
(* spawned is no longer running; in particular a call that failed with a   *)
(* timeout has terminated its child.                                       *)
(***************************************************************************)
C1_NoLiveChildAfterReturn ==
    (call.pc = "returned" /\ call.pid # 0) => children[call.pid] # "running"

(***************************************************************************)
(* C2: when a unit's test or benchmark command exceeds its timeout,        *)
(* run_tests / run_benchmarks returns a result object whose top-level      *)
(* error is set, not a hard error.                                         *)
(***************************************************************************)
C2_TimeoutIsErrorResult ==
    \A u \in DOMAIN units :
        (units[u].pc = "done" /\ units[u].exec = "Timeout")
            => (units[u].ret.tag = "Ok" /\ units[u].ret.value.error # "None")

(***************************************************************************)
(* C3: for every runner, a command that runs to completion with a non-zero *)
(* exit status makes run_tests / run_benchmarks return Ok with a result    *)
(* whose top-level error is set and whose summary has no successful case   *)
(* (passed = 0 for tests, total_cases = 0 for benchmarks).                 *)
(***************************************************************************)
IsZeroSuccessErrorResult(ret, result_type) ==
    /\ ret.tag = "Ok"
    /\ ret.value.error # "None"
    /\ IF result_type = "test_results" THEN ret.value.summary.passed = 0
       ELSE ret.value.summary.total_cases = 0

C3_ExitFailureIsErrorResult ==
    /\ \A u \in DOMAIN units :
          (units[u].pc = "done" /\ units[u].exec = "ExitFailure")
              => IsZeroSuccessErrorResult(units[u].ret, kind)
    /\ \A l \in Runners :
          /\ IsZeroSuccessErrorResult(RunTestsCollect(l, FALSE, dir, << >>), "test_results")
          /\ IsZeroSuccessErrorResult(RunBenchmarksCollect(l, FALSE, dir), "benchmark_results")

\* A unit whose command failed although a well-formed result file of its own lies
\* in the directory.
C3_Witness ==
    \E u \in DOMAIN units :
        /\ units[u].pc = "done"
        /\ units[u].exec = "ExitFailure"
        /\ LoadResultFromFile(dir, LoadPattern(units[u].lang, kind)) # NoFile

(***************************************************************************)
(* C4: in sequential mode (run_tests, run_benchmarks) a failure of one     *)
(* implementation never prevents a later implementation of the list from   *)
(* being processed in that phase: once the phase is over, every listed     *)
(* implementation has been run. The lists taken are those of languages     *)
(* that have a runner, so that every failure is an implementation's own.   *)
(***************************************************************************)
C4_LaterImplementationsProcessed ==
    (/\ ~args.parallel
     /\ args.entry # "none"
     /\ stage \notin {"tests", "benchmarks"}
     /\ \A j \in DOMAIN tasks : tasks[j].lang \in Runners)
    => \A j \in DOMAIN tasks : tasks[j].pc = "done"

(***************************************************************************)
(* C5: in parallel mode (run_parallel_tests, run_parallel_benchmarks) each *)
(* listed implementation gets its unit, the call is over only when all     *)
(* units have finished, and no failure of a unit (an error result, a hard  *)
(* error, a runner identity create_runner does not support) cancels a      *)
(* sibling or keeps it from running: when the call is over no unit is left *)
(* pending, running or dropped.                                            *)
(***************************************************************************)
C5_ParallelFailureSparesSiblings ==
    (args.parallel /\ stage \notin {"tests", "benchmarks"})
    => \A j \in DOMAIN tasks : tasks[j].pc \notin {"pending", "running", "dropped"}

(***************************************************************************)
(* C6: the report of run_command / benchmark_command holds, for each       *)
(* phase, as many results as implementations entered the phase, and an     *)
(* implementation whose command failed in the last phase is in the report  *)
(* with its error set.                                                     *)
(***************************************************************************)
C6_ReportCountsEnteredImplementations ==
    report.made =>
        /\ Len(report.test_results) = entered.test_results
        /\ Len(report.benchmark_results) = entered.benchmark_results
        /\ LET last == IF args.entry = "run_command" /\ args.tests_only
                       THEN report.test_results ELSE report.benchmark_results
           IN  \A j \in DOMAIN tasks :
                  tasks[j].exec \in {"ExecFailed", "Timeout", "ExitFailure"}
                  => \E k \in DOMAIN last : /\ last[k].language = tasks[j].lang
                                            /\ last[k].error # "None"

(***************************************************************************)
(* C7: within a run of run_command / benchmark_command an implementation   *)
(* goes Pending -> SettingUp -> Ready or SetupFailed and stays there       *)
(* (SetupFailed is final for the rest of the run), and a test or benchmark *)
(* command is started only for an implementation that is Ready.            *)
(***************************************************************************)
LifecycleStep(from, to) ==
    \/ from = to
    \/ from = "Pending" /\ to = "SettingUp"
    \/ from = "SettingUp" /\ to \in {"Ready", "SetupFailed"}

StartedOnlyWhenReady ==
    \A t \in DOMAIN tasks :
        (t \in DOMAIN tasks' /\ tasks[t].pc = "pending" /\ tasks'[t].pc = "running")
        => setup_state[tasks[t].lang] = "Ready"

C7_Lifecycle ==
    [][args.entry \in {"run_command", "benchmark_command"}
       => /\ \A l \in LangPool : LifecycleStep(setup_state[l], setup_state'[l])
          /\ StartedOnlyWhenReady]_vars

(***************************************************************************)
(* C8: every TestResult the harness produces satisfies                     *)
(* passed + failed + errors = total in its summary.                        *)
(***************************************************************************)
C8_SummaryAddsUp ==
    tr.summary.passed + tr.summary.failed + tr.summary.errors = tr.summary.total

(***************************************************************************)
(* C9: the summary of every TestResult returned by run_tests equals the    *)
(* counts over its own case list: total is the number of cases, passed /   *)
(* failed / errors the number of cases that passed, failed without error   *)
(* text, failed with error text.                                           *)
(***************************************************************************)
CountCases(r, P(_)) == Cardinality({i \in DOMAIN r.tests : P(r.tests[i])})

SummaryMatchesCases(r) ==
    /\ r.summary.total = Len(r.tests)
    /\ r.summary.passed = CountCases(r, LAMBDA c : c.passed)
    /\ r.summary.failed = CountCases(r, LAMBDA c : ~c.passed /\ ~c.error)
    /\ r.summary.errors = CountCases(r, LAMBDA c : ~c.passed /\ c.error)

C9_SummaryEqualsCaseCounts ==
    \A u \in DOMAIN units :
        (kind = "test_results" /\ units[u].pc = "done" /\ units[u].ret.tag = "Ok")
            => SummaryMatchesCases(units[u].ret.value)

(***************************************************************************)
(* C10: units of different implementations never share a file: a file that *)
(* one unit's cleanup or load pattern matches is not matched by the other  *)
(* unit's patterns, was not written by the other unit's child, and what a  *)
(* unit deleted or loaded is a file of its own language, written by its    *)
(* own child or there before the run.                                      *)
(***************************************************************************)
UnitMatches(u, f) ==
    \/ f \in CleanupMatches({f}, units[u].lang, kind)
    \/ GlobMatch(LoadPattern(units[u].lang, kind), f.name)

C11_FirstParsedInGlobOrder ==
    load.pc = "returned" =>
        LET matching == {f \in load.d : GlobMatch(LoadPattern(load.lang, load.kind), f.name)}
            good == {f \in matching : f.readable /\ f.ok}
        IN  IF good = {} THEN load.ret = NoFile
            ELSE /\ load.ret \in good
                 /\ \A g \in good : g = load.ret \/ NameBefore(load.ret.name, g.name)

\* A malformed or unreadable file that comes first in glob order has been
\* passed over for a later one.
C11_Witness ==
    /\ load.pc = "returned"
    /\ load.ret # NoFile
    /\ \E f \in load.d :
          /\ GlobMatch(LoadPattern(load.lang, load.kind), f.name)
          /\ ~(f.readable /\ f.ok)
          /\ NameBefore(f.name, load.ret.name)

(***************************************************************************)
(* C12: the fallback scan puts each stdout line in exactly one of the      *)
(* classes pass, fail, error and no-signal, and the minimal TestResult it  *)
(* returns has passed, failed and errors equal to the number of lines of   *)
(* the classes pass, fail and error, with total their sum. A line is of    *)
(* class error when it has the error token of the runners' sets and no     *)
(* pass token.                                                             *)
(***************************************************************************)
IsErrorLine(lang, line) == LowerContains(line, "error")

SignalOf(lang, line) ==
    IF IsPassLine(lang, line) THEN "pass"
    ELSE IF IsErrorLine(lang, line) THEN "error"
    ELSE IF IsFailLine(lang, line) THEN "fail"
    ELSE "none"

CountSignals(lang, out, class) ==
    Cardinality({i \in DOMAIN out : SignalOf(lang, out[i]) = class})

C13_CommandsStartedAtMostOnce ==
    args.entry \in {"run_command", "benchmark_command"}
    => \A l \in LangPool : \A p \in Phases : executed[l][p] <= 1

(***************************************************************************)
(* C14: for a non-empty benchmark result list, fastest_implementation is   *)
(* the language of the result with the lowest avg_time_per_case_ms, the    *)
(* first in list order of those that share the minimum.                    *)
(***************************************************************************)
AvgOf(i) == cmp.benchmark_results[i].summary.avg_time_per_case_ms

C14_FastestIsFirstMinimum ==
    (cmp.pc = "built" /\ cmp.benchmark_results # << >>) =>
        \E i \in DOMAIN cmp.benchmark_results :
            /\ cmp.summary.fastest_implementation = cmp.benchmark_results[i].language
            /\ \A j \in DOMAIN cmp.benchmark_results : AvgOf(i) <= AvgOf(j)
            /\ \A j \in 1..(i - 1) : AvgOf(j) > AvgOf(i)

\* Times <<2, 1, 1>>: the minimum is shared, and its first holder is not the
\* head of the list.
C14_Witness ==
    /\ cmp.pc = "built"
    /\ Len(cmp.benchmark_results) = 3
    /\ AvgOf(1) > AvgOf(2) /\ AvgOf(2) = AvgOf(3)
    /\ cmp.summary.fastest_implementation = cmp.benchmark_results[2].language

(***************************************************************************)
(* C15: for a non-empty test result list, most_compliant_implementation is *)
(* the language of a result whose pass ratio passed/total is maximal over  *)
(* the list, the ratio of a result with total = 0 being 0.                 *)
(***************************************************************************)
RatioNum(i) ==
    IF cmp.test_results[i].summary.total = 0 THEN 0 ELSE cmp.test_results[i].summary.passed
RatioDen(i) ==
    IF cmp.test_results[i].summary.total = 0 THEN 1 ELSE cmp.test_results[i].summary.total
RatioLeq(i, j) == RatioNum(i) * RatioDen(j) <= RatioNum(j) * RatioDen(i)

C15_MostCompliantHasMaximalRatio ==
    (cmp.pc = "built" /\ cmp.test_results # << >>) =>
        \E i \in DOMAIN cmp.test_results :
            /\ cmp.summary.most_compliant_implementation = cmp.test_results[i].language
            /\ \A j \in DOMAIN cmp.test_results : RatioLeq(j, i)

\* Ratios like <<0.9, 0.9, 0.95>>: two equal ones and a higher third, which is
\* chosen.
C15_Witness ==
    /\ cmp.pc = "built"
    /\ Len(cmp.test_results) = 3
    /\ RatioLeq(1, 2) /\ RatioLeq(2, 1) /\ ~RatioLeq(3, 2)
    /\ cmp.summary.most_compliant_implementation = cmp.test_results[3].language

(***************************************************************************)
(* C16: in every ComparisonReport fastest_implementation is None exactly   *)
(* when benchmark_results is empty and otherwise the language of one of    *)
(* its elements; most_compliant_implementation is None exactly when        *)
(* test_results is empty and otherwise the language of one of its elements.*)
(***************************************************************************)
C16_DerivedFieldsNameListMembers ==
    cmp.pc = "built" =>
        /\ (cmp.summary.fastest_implementation = NoneOpt) <=> (cmp.benchmark_results = << >>)
        /\ cmp.benchmark_results # << >> =>
              \E i \in DOMAIN cmp.benchmark_results :
                  cmp.summary.fastest_implementation = cmp.benchmark_results[i].language
        /\ (cmp.summary.most_compliant_implementation = NoneOpt) <=> (cmp.test_results = << >>)
        /\ cmp.test_results # << >> =>
              \E i \in DOMAIN cmp.test_results :
                  cmp.summary.most_compliant_implementation = cmp.test_results[i].language

\* A report with one list empty and the other not, the latter holding only
\* results that carry an error.
C16_Witness ==
    /\ cmp.pc = "built"
    /\ cmp.test_results = << >>
    /\ cmp.benchmark_results # << >>
    /\ \A i \in DOMAIN cmp.benchmark_results : cmp.benchmark_results[i].error # "None"
    /\ cmp.summary.fastest_implementation # NoneOpt
    /\ cmp.summary.most_compliant_implementation = NoneOpt

(***************************************************************************)
(* C17: the summary has languages_tested = max of the two list lengths,    *)
(* total_tests = the sum of summary.total over test_results and            *)
(* total_benchmarks = the sum of summary.total_cases over                  *)
(* benchmark_results; for two empty lists all three are 0.                 *)
(***************************************************************************)
RECURSIVE SumSeq(_)
SumSeq(ns) == IF ns = << >> THEN 0 ELSE ns[Len(ns)] + SumSeq(SubSeq(ns, 1, Len(ns) - 1))

C17_SummaryCounts ==
    cmp.pc = "built" =>
        LET nt == Len(cmp.test_results)
            nb == Len(cmp.benchmark_results)
        IN  /\ cmp.summary.languages_tested = IF nt > nb THEN nt ELSE nb
            /\ cmp.summary.total_tests =
                  SumSeq([i \in 1..nt |-> cmp.test_results[i].summary.total])
            /\ cmp.summary.total_benchmarks =
                  SumSeq([i \in 1..nb |-> cmp.benchmark_results[i].summary.total_cases])
            /\ (nt = 0 /\ nb = 0) =>
                  /\ cmp.summary.languages_tested = 0
                  /\ cmp.summary.total_tests = 0
                  /\ cmp.summary.total_benchmarks = 0

\* Two lists of different, non-zero lengths with cases to add up.
C17_Witness ==
    /\ cmp.pc = "built"
    /\ Len(cmp.test_results) = 2
    /\ Len(cmp.benchmark_results) = 1
    /\ cmp.summary.languages_tested = 2
    /\ cmp.summary.total_tests > 2
    /\ cmp.summary.total_benchmarks > 0

(***************************************************************************)
(* C18: every BenchmarkCaseResult of a BenchmarkResult that run_benchmarks *)
(* returned or that was placed in a report has derived statistics that     *)
(* can be recomputed from its own samples: iterations is the number of     *)
(* samples, total_time_ms their sum, min_time_ms and max_time_ms the least *)
(* and the greatest of them.                                               *)
(***************************************************************************)
SamplesMin(times) ==
    IF times = << >> THEN 0
    ELSE CHOOSE x \in {times[i] : i \in DOMAIN times} : \A i \in DOMAIN times : x <= times[i]
SamplesMax(times) ==
    IF times = << >> THEN 0
    ELSE CHOOSE x \in {times[i] : i \in DOMAIN times} : \A i \in DOMAIN times : x >= times[i]

ConsistentCase(c) ==
    /\ c.iterations = Len(c.times)
    /\ c.total_time_ms = SumSeq(c.times)
    /\ c.min_time_ms = SamplesMin(c.times)
    /\ c.max_time_ms = SamplesMax(c.times)

C18_StatisticsMatchSamples ==
    /\ bench.pc \in {"returned", "reported"} =>
          \A i \in DOMAIN bench.ret.value.benchmarks :
              ConsistentCase(bench.ret.value.benchmarks[i])
    /\ \A k \in DOMAIN bench.report :
          \A i \in DOMAIN bench.report[k].benchmarks :
              ConsistentCase(bench.report[k].benchmarks[i])


(***************************************************************************)
(* C19: a setup whose command exits non-zero, times out or cannot be       *)
(* spawned returns a failure (for Python also when the creation of the     *)
(* virtual environment fails), and setup_implementation records the        *)
(* implementation as false, never as ready.                                *)
(***************************************************************************)
C19_FailedSetupRecordedFalse ==
    (setup.last # NoLast /\ setup.last.exec # "ExitSuccess")
    => /\ <<setup.last.lang, FALSE>> \in setup_results
       /\ <<setup.last.lang, TRUE>> \notin setup_results
       /\ setup.last.lang \notin SuccessfulKeys(setup_results)
       /\ setup_state[setup.last.lang] = "SetupFailed"

C19_Witness ==
    /\ setup.last = [lang |-> "python", step |-> "venv", exec |-> "Timeout"]
    /\ <<"python", FALSE>> \in setup_results
    /\ <<"java", TRUE>> \in setup_results

(***************************************************************************)
(* C20: in run_command without --parallel the implementations are taken    *)
(* one at a time in the order the caller listed them (those whose setup    *)
(* succeeded): the commands are started in that order, the collected       *)
(* results are in that order, and no command starts before the one of the  *)
(* implementation before it is over.                                       *)
(***************************************************************************)
FirstIndex(l) ==
    CHOOSE i \in 1..Len(args.languages) :
        /\ args.languages[i] = l
        /\ \A j \in 1..(i - 1) : args.languages[j] # l

InCallerOrder(langs) ==
    \A i, j \in 1..Len(langs) : i < j => FirstIndex(langs[i]) < FirstIndex(langs[j])

LanguagesOf(rs) == [i \in 1..Len(rs) |-> rs[i].language]

C20_SequentialInCallerOrder ==
    (args.entry = "run_command" /\ ~args.parallel)
    => /\ InCallerOrder([i \in DOMAIN tasks |-> tasks[i].lang])
       /\ InCallerOrder(LanguagesOf(test_results))
       /\ InCallerOrder(LanguagesOf(benchmark_results))
       /\ \A j \in DOMAIN tasks :
             tasks[j].pc # "pending" => \A i \in 1..(j - 1) : tasks[i].pc = "done"


(***************************************************************************)
(* C21: execute_command on an empty command fails with the invalid-command *)
(* error and spawns no process, and the error leaves setup, run_tests and  *)
(* run_benchmarks as an Err, never as an error result.                     *)
(***************************************************************************)
C21_EmptyCommandIsFatal ==
    /\ SetupReturn("InvalidCommand") = Err("InvalidCommand")
    /\ \A u \in DOMAIN units :
          units[u].exec = "InvalidCommand"
          => /\ units[u].child = "none"
             /\ ~units[u].wrote
             /\ units[u].pc = "done"
             /\ units[u].ret = Err("InvalidCommand")

C21_Witness ==
    \E u, v \in DOMAIN units :
        /\ units[u].exec = "InvalidCommand"
        /\ units[u].ret.tag = "Err"
        /\ units[v].child = "exited"
        /\ units[v].ret.tag = "Ok"


(***************************************************************************)
(* C22: for a non-empty list of samples the median calculate returns is    *)
(* the middle element of the samples in ascending order when their count   *)
(* is odd, the average of the two middle ones when it is even, whatever    *)
(* the order the samples came in.                                          *)
(***************************************************************************)
ValuesOf(q) == {q[i] : i \in 1..Len(q)}

IsPermutation(q, values) ==
    /\ Len(q) = Len(values)
    /\ \A x \in ValuesOf(q) \cup ValuesOf(values) :
          Cardinality({i \in 1..Len(q) : q[i] = x})
            = Cardinality({i \in 1..Len(values) : values[i] = x})

Reorderings(values) ==
    {q \in [1..Len(values) -> ValuesOf(values)] : IsPermutation(q, values)}

Ascending(q) == \A i \in 1..(Len(q) - 1) : ~FLess(q[i + 1], q[i])

C22_MedianIsConventional ==
    (stat.pc = "calculated" /\ stat.values # << >>)
    => LET n == Len(stat.values)
           asc == CHOOSE q \in Reorderings(stat.values) : Ascending(q)
           median == stat.summary.median
       IN  /\ n % 2 = 1 => median = asc[(n + 1) \div 2]
           /\ n % 2 = 0 => FAdd(median, median) = FAdd(asc[n \div 2], asc[n \div 2 + 1])
           /\ \A q \in Reorderings(stat.values) : Median(q) = median

C22_Witness ==
    /\ stat.pc = "calculated"
    /\ Len(stat.values) = 2
    /\ FLess(stat.values[2], stat.values[1])
    /\ stat.summary.median \notin ValuesOf(stat.values)

(***************************************************************************)
(* C23: on a sorted non-empty list percentile(p) takes the index           *)
(* (p/100)*(n-1) and interpolates between the elements at its floor and    *)
(* its ceiling: both positions lie in 0..n-1 for p in 0..100,              *)
(* percentile(0) is the minimum and percentile(100) the maximum.           *)
(***************************************************************************)
C23_PercentileWithinSortedList ==
    (stat.pc = "percentile" /\ stat.values # << >>)
    => LET n == Len(stat.values)
           asc == CHOOSE q \in Reorderings(stat.values) : Ascending(q)
           r == stat.pct
       IN  /\ r.lower_index \in 0..(n - 1)
           /\ r.upper_index \in 0..(n - 1)
           /\ r.lower_index = (stat.p * (n - 1)) \div 100
           /\ r.upper_index = r.lower_index + (IF (stat.p * (n - 1)) % 100 = 0 THEN 0 ELSE 1)
           /\ ~FLess(r.index, FromInt(r.lower_index))
           /\ ~FLess(FromInt(r.upper_index), r.index)
           /\ ~FLess(r.value, asc[r.lower_index + 1])
           /\ ~FLess(asc[r.upper_index + 1], r.value)
           /\ stat.p = 0 => r.value = asc[1]
           /\ stat.p = 100 => r.value = asc[n]

C23_Witness ==
    /\ stat.pc = "percentile"
    /\ stat.p = 95
    /\ Len(stat.values) = 3
    /\ stat.pct.lower_index = 1
    /\ stat.pct.upper_index = 2
    /\ stat.pct.value \notin ValuesOf(stat.values)

(***************************************************************************)
(* C24: the standard deviation is the root of the population variance (the *)
(* squared deviations from the mean, summed, over N), so of N >= 1         *)
(* identical values it is exactly 0.                                       *)
(***************************************************************************)
C24_IdenticalValuesDeviateByZero ==
    (/\ stat.pc = "calculated"
     /\ stat.values # << >>
     /\ \A i \in 1..Len(stat.values) : stat.values[i] = stat.values[1])
    => stat.summary.std_dev = FZero


(***************************************************************************)
(* C25: the Python runner runs its setup, test and benchmark commands with *)
(* the resolved interpreter as first token: the python of the first of     *)
(* venv, .venv, env, .env that holds one, else the system-wide python; the *)
(* other tokens are those of the configured command.                       *)
(***************************************************************************)
ResolvedInterpreter(impl_dir) ==
    IF \E i \in 1..Len(venv_dirs) : impl_dir[venv_dirs[i]] = "python"
    THEN PythonPath(venv_dirs[CHOOSE i \in 1..Len(venv_dirs) :
                                /\ impl_dir[venv_dirs[i]] = "python"
                                /\ \A j \in 1..(i - 1) : impl_dir[venv_dirs[j]] # "python"])
    ELSE "python"

C25_InterpreterIsFirstToken ==
    (py.pc = "done" /\ py.handed /\ py.command # << >>)
    => /\ Len(py.ran) = Len(py.command)
       /\ py.ran[1] = ResolvedInterpreter(py.impl_dir)
       /\ \A i \in 2..Len(py.command) : py.ran[i] = py.command[i]


(***************************************************************************)
(* C26: the structured result run_tests / run_benchmarks returns comes     *)
(* from the command of that very call: stale files are removed before the  *)
(* command starts, so no file that lay in the results directory before     *)
(* the call and matches the load pattern is returned as the result.        *)
(***************************************************************************)
C26_LoadedFileIsOfThisRun ==
    \A u \in DOMAIN units :
        units[u].loaded # NoFile => units[u].loaded.by # 0


(***************************************************************************)
(* C27: when the benchmark result list holds a result with at least one    *)
(* measured case, fastest_implementation does not name a result of the     *)
(* list that carries an error and has no cases.                            *)
(***************************************************************************)
Unmeasured(r) == r.error # "None" /\ r.summary.total_cases = 0

Measured(r) == r.summary.total_cases > 0

C27_FastestWasMeasured ==
    (/\ cmp.pc = "built"
     /\ \E j \in DOMAIN cmp.benchmark_results : Measured(cmp.benchmark_results[j]))
    => \A i \in DOMAIN cmp.benchmark_results :
          Unmeasured(cmp.benchmark_results[i]) =>
              cmp.summary.fastest_implementation # cmp.benchmark_results[i].language


(***************************************************************************)
(* C28: under run_command, sequential or parallel, while the benchmark     *)
(* command of an implementation runs, no test command of that              *)
(* implementation is still running.                                        *)
(***************************************************************************)
C28_TestAndBenchmarkNeverOverlap ==
    (args.entry = "run_command" /\ stage = "benchmarks") =>
        \A t \in DOMAIN tasks :
            tasks[t].pc = "running" => <<tasks[t].lang, "test_results">> \notin orphans


(***************************************************************************)
(* C29: the list run_parallel_tests / run_parallel_benchmarks returns      *)
(* holds the values of the units that returned Ok, in the order of the     *)
(* input list whatever the order in which the units finished, one entry    *)
(* for each such unit.                                                     *)
(***************************************************************************)
OkUnits(ts) == {j \in DOMAIN ts : ts[j].ret.tag = "Ok"}

InInputOrder(res, ts) ==
    \E f \in [1..Len(res) -> DOMAIN ts] :
        /\ \A i, j \in 1..Len(res) : i < j => f[i] < f[j]
        /\ {f[i] : i \in 1..Len(res)} = OkUnits(ts)
        /\ \A i \in 1..Len(res) :
              res[i] = ts[f[i]].ret.value /\ res[i].language = ts[f[i]].lang

C29_ParallelResultsInInputOrder ==
    [][(/\ args.parallel
        /\ stage \in {"tests", "benchmarks"}
        /\ \A j \in DOMAIN tasks : tasks[j].pc = "done"
        /\ stage' # stage)
       => InInputOrder(IF stage = "tests" THEN test_results' ELSE benchmark_results',
                       tasks)]_vars

\* Two units of different languages, the second finished first, both Ok: the
\* list returned has the first unit's value first.
C29_Witness ==
    /\ args.entry = "api_tests" /\ args.parallel
    /\ stage = "completed"
    /\ Len(tasks) = 2
    /\ tasks[1].lang # tasks[2].lang
    /\ tasks[1].ret.tag = "Ok" /\ tasks[2].ret.tag = "Ok"
    /\ tasks[2].nth = 1 /\ tasks[1].nth = 2
    /\ test_results = <<tasks[1].ret.value, tasks[2].ret.value>>


(***************************************************************************)
(* C30: of the test results that share the highest pass ratio,             *)
(* most_compliant_implementation names the last in list order, so the last *)
(* of the list when every ratio is 0; of the benchmark results that share  *)
(* the lowest average time, fastest_implementation names the first.        *)
(***************************************************************************)
LastOfHighestRatio(i) ==
    /\ \A j \in DOMAIN cmp.test_results : RatioLeq(j, i)
    /\ \A j \in (i + 1)..Len(cmp.test_results) : ~RatioLeq(i, j)

FirstOfLowestAvg(i) ==
    /\ \A j \in DOMAIN cmp.benchmark_results : AvgOf(i) <= AvgOf(j)
    /\ \A j \in 1..(i - 1) : AvgOf(j) # AvgOf(i)

C30_TiesGoToLastMostCompliant ==
    cmp.pc = "built" =>
        /\ \A i \in DOMAIN cmp.test_results :
              LastOfHighestRatio(i) <=>
                  cmp.summary.most_compliant_implementation = cmp.test_results[i].language
        /\ (/\ cmp.test_results # << >>
            /\ \A j \in DOMAIN cmp.test_results : RatioNum(j) = 0)
           => cmp.summary.most_compliant_implementation =
                  cmp.test_results[Len(cmp.test_results)].language
        /\ \A i \in DOMAIN cmp.benchmark_results :
              FirstOfLowestAvg(i) <=>
                  cmp.summary.fastest_implementation = cmp.benchmark_results[i].language

\* Three test results: the first two share the highest ratio, which is not 0,
\* and the third lies below it; the second is named.
C30_Witness ==
    /\ cmp.pc = "built"
    /\ Len(cmp.test_results) = 3
    /\ RatioNum(1) > 0
    /\ RatioLeq(1, 2) /\ RatioLeq(2, 1) /\ ~RatioLeq(2, 3)
    /\ cmp.summary.most_compliant_implementation = cmp.test_results[2].language

====
